---- MODULE Spec2Model ----
(***************************************************************************)
(* Model of github.com/bborbe/argument/v2: resolution of a configuration   *)
(* struct from default tags, environment variables and command-line flags, *)
(* the JSON based Fill, and the two validation passes.                     *)
(*                                                                         *)
(* Text is a sequence of one-character strings, so that splitting,         *)
(* trimming and number parsing are computed and not assumed.               *)
(* Durations are counted in seconds (the code counts nanoseconds), floats  *)
(* in tenths; both are plain changes of unit.                              *)
(***************************************************************************)
EXTENDS Integers, Sequences, FiniteSets, TLC

\* ------------------------------------------------------------------------
\* Bounds of the model
\* ------------------------------------------------------------------------
\* longest argument vector handed to a call
MaxArgs == 1
\* longest environment block handed to a call
MaxEnviron == 1

\* ------------------------------------------------------------------------
\* Text helpers
\* ------------------------------------------------------------------------
Digits == <<"0", "1", "2", "3", "4", "5", "6", "7", "8", "9">>

IsDigit(c) == \E i \in 1..10 : Digits[i] = c

DigitVal(c) == (CHOOSE i \in 1..10 : Digits[i] = c) - 1

\* a result of a conversion: ok, and the value when ok
Ok(v) == [ok |-> TRUE, v |-> v]
Fail == [ok |-> FALSE, v |-> 0]

RECURSIVE DecimalValue(_)
DecimalValue(t) ==
    IF t = <<>> THEN 0
    ELSE 10 * DecimalValue(SubSeq(t, 1, Len(t) - 1)) + DigitVal(t[Len(t)])

AllDigits(t) == t # <<>> /\ \A i \in 1..Len(t) : IsDigit(t[i])

\* index of the first occurrence of character c in t, 0 when there is none
IndexOf(t, c) ==
    IF \E i \in 1..Len(t) : t[i] = c
    THEN CHOOSE i \in 1..Len(t) : t[i] = c /\ \A j \in 1..(i - 1) : t[j] # c
    ELSE 0

\* strings.Contains(t, sub)
Contains(t, sub) ==
    \E i \in 0..(Len(t) - Len(sub)) : SubSeq(t, i + 1, i + Len(sub)) = sub

\* strings.HasPrefix(t, p)
HasPrefix(t, p) == Len(t) >= Len(p) /\ SubSeq(t, 1, Len(p)) = p

IsSpace(c) == c = " "

\* strings.TrimSpace
RECURSIVE TrimLeft(_)
TrimLeft(t) == IF t # <<>> /\ IsSpace(t[1]) THEN TrimLeft(Tail(t)) ELSE t

RECURSIVE TrimRight(_)
TrimRight(t) ==
    IF t # <<>> /\ IsSpace(t[Len(t)]) THEN TrimRight(SubSeq(t, 1, Len(t) - 1)) ELSE t

TrimSpace(t) == TrimRight(TrimLeft(t))

\* strings.Index(t, sep) counted from 1, 0 when sep does not occur
IndexOfText(t, sep) ==
    IF Contains(t, sep)
    THEN CHOOSE i \in 1..(Len(t) - Len(sep) + 1) :
            /\ SubSeq(t, i, i + Len(sep) - 1) = sep
            /\ \A j \in 1..(i - 1) : SubSeq(t, j, j + Len(sep) - 1) # sep
    ELSE 0

\* strings.Split(t, sep) for a separator that is not empty
RECURSIVE Split(_, _)
Split(t, sep) ==
    LET i == IndexOfText(t, sep)
    IN  IF i = 0 THEN <<t>>
        ELSE <<SubSeq(t, 1, i - 1)>> \o Split(SubSeq(t, i + Len(sep), Len(t)), sep)

\* strings.Join(parts, sep)
RECURSIVE Join(_, _)
Join(parts, sep) ==
    IF parts = <<>> THEN <<>>
    ELSE IF Len(parts) = 1 THEN parts[1]
    ELSE parts[1] \o sep \o Join(Tail(parts), sep)

\* ------------------------------------------------------------------------
\* strconv and the duration parser
\* ------------------------------------------------------------------------
TrueTexts == {<<"1">>, <<"t">>, <<"T">>, <<"t", "r", "u", "e">>,
              <<"T", "R", "U", "E">>, <<"T", "r", "u", "e">>}
FalseTexts == {<<"0">>, <<"f">>, <<"F">>, <<"f", "a", "l", "s", "e">>,
               <<"F", "A", "L", "S", "E">>, <<"F", "a", "l", "s", "e">>}

\* strconv.ParseBool: the value is 1 for true and 0 for false
ParseBool(t) ==
    IF t \in TrueTexts THEN Ok(1)
    ELSE IF t \in FalseTexts THEN Ok(0)
    ELSE Fail

HexDigits == <<"0", "1", "2", "3", "4", "5", "6", "7", "8", "9",
               "a", "b", "c", "d", "e", "f">>

InBase(c, base) == \E i \in 1..base : HexDigits[i] = c

BaseVal(c) == (CHOOSE i \in 1..16 : HexDigits[i] = c) - 1

RECURSIVE BaseValue(_, _)
BaseValue(t, base) ==
    IF t = <<>> THEN 0
    ELSE base * BaseValue(SubSeq(t, 1, Len(t) - 1), base) + BaseVal(t[Len(t)])

\* the digits of an unsigned number in the given base; base 0 reads the base
\* from the prefix (0x, 0b, 0o, a leading 0 for octal) as strconv does
ParseUintBase(t, base) ==
    LET two == IF Len(t) >= 2 THEN SubSeq(t, 1, 2) ELSE <<>>
        b == IF base # 0 THEN base
             ELSE IF two \in {<<"0", "x">>, <<"0", "X">>} THEN 16
             ELSE IF two \in {<<"0", "b">>, <<"0", "B">>} THEN 2
             ELSE IF two \in {<<"0", "o">>, <<"0", "O">>} THEN 8
             ELSE IF Len(t) >= 2 /\ t[1] = "0" THEN 8
             ELSE 10
        body == IF base # 0 THEN t
                ELSE IF two \in {<<"0", "x">>, <<"0", "X">>, <<"0", "b">>,
                                 <<"0", "B">>, <<"0", "o">>, <<"0", "O">>}
                     THEN SubSeq(t, 3, Len(t))
                ELSE IF Len(t) >= 2 /\ t[1] = "0" THEN Tail(t)
                ELSE t
    IN  IF body # <<>> /\ \A i \in 1..Len(body) : InBase(body[i], b)
        THEN Ok(BaseValue(body, b))
        ELSE Fail

\* strconv.ParseUint(t, base, 0 or 64): no sign is accepted
ParseUint(t, base) == ParseUintBase(t, base)

\* strconv.ParseInt(t, base, 0 or 64): an optional sign, then the digits
ParseInt(t, base) ==
    IF t = <<>> THEN Fail
    ELSE LET signed == t[1] \in {"+", "-"}
             withSign(r) ==
                 IF ~r.ok THEN Fail
                 ELSE IF t[1] = "-" THEN Ok(0 - r.v) ELSE Ok(r.v)
         IN  withSign(ParseUintBase(IF signed THEN Tail(t) ELSE t, base))

\* strconv.Atoi
Atoi(t) == ParseInt(t, 10)

\* Numbers of many digits. The arithmetic of the model holds 32 bits, so a
\* decimal text of more than eight digits is not turned into a number: it is
\* compared digit by digit, and reduced to its low 32 bits half by half.
MaxDigits(bits) ==
    IF bits = 32 THEN <<"2", "1", "4", "7", "4", "8", "3", "6", "4", "7">>
    ELSE <<"9", "2", "2", "3", "3", "7", "2", "0", "3", "6",
           "8", "5", "4", "7", "7", "5", "8", "0", "7">>

\* a < b for two digit texts without leading zeros
MagnitudeLess(a, b) ==
    \/ Len(a) < Len(b)
    \/ /\ Len(a) = Len(b)
       /\ \E i \in 1..Len(a) :
             /\ \A j \in 1..(i - 1) : a[j] = b[j]
             /\ DigitVal(a[i]) < DigitVal(b[i])

\* the sign and the digits of a decimal text of many digits
IsNegative(t) == t # <<>> /\ t[1] = "-"
Magnitude(t) == IF t # <<>> /\ t[1] \in {"+", "-"} THEN Tail(t) ELSE t

\* whether a text is a decimal number of more than eight digits
IsBig(t) ==
    LET many(u) == AllDigits(u) /\ u[1] # "0" /\ Len(u) > 8
    IN  many(Magnitude(t))

\* whether a number of many digits lies in the range of the signed integers
\* of the given width: the least number of the range has the magnitude of the
\* greatest, plus one
InRange(t, bits) ==
    IF IsNegative(t)
    THEN ~MagnitudeLess([MaxDigits(bits) EXCEPT ![Len(MaxDigits(bits))] = "8"], Magnitude(t))
    ELSE ~MagnitudeLess(MaxDigits(bits), Magnitude(t))

\* the low 32 bits of a digit text as two halves of 16 bits, from the halves
\* of the digits read so far
RECURSIVE Low32(_, _, _)
Low32(t, hi, lo) ==
    IF t = <<>> THEN <<hi, lo>>
    ELSE LET carry(x) == Low32(Tail(t), (10 * hi + (x \div 65536)) % 65536, x % 65536)
         IN  carry(10 * lo + DigitVal(t[1]))

\* the conversion int32(v) of a number of many digits: the low 32 bits, read
\* as two's complement
Int32Of(t) ==
    LET signed(h) ==
            IF h[1] >= 32768 THEN (h[1] - 65536) * 65536 + h[2] ELSE h[1] * 65536 + h[2]
        wrapped(m) == IF IsNegative(t) /\ m # 0 - 2147483647 - 1 THEN 0 - m ELSE m
    IN  wrapped(signed(Low32(Magnitude(t), 0, 0)))

\* strconv.Itoa of a number that is not negative
RECURSIVE Itoa(_)
Itoa(n) == IF n < 10 THEN <<Digits[n + 1]>> ELSE Itoa(n \div 10) \o <<Digits[(n % 10) + 1]>>

\* strconv.ParseFloat(t, 64), in tenths, for the decimal notation with at most
\* one fractional digit
ParseFloat(t) ==
    IF t = <<>> THEN Fail
    ELSE LET signed == t[1] \in {"+", "-"}
             neg == t[1] = "-"
             tenths(m) == Ok(IF neg THEN 0 - m ELSE m)
             digits(whole, frac) ==
                 IF AllDigits(whole) /\ Len(frac) = 1 /\ IsDigit(frac[1])
                 THEN tenths(10 * DecimalValue(whole) + DigitVal(frac[1]))
                 ELSE Fail
             mantissa(u, dot) ==
                 digits(IF dot = 0 THEN u ELSE SubSeq(u, 1, dot - 1),
                        IF dot = 0 THEN <<"0">> ELSE SubSeq(u, dot + 1, Len(u)))
             unsigned(u) == mantissa(u, IndexOf(u, "."))
         IN  unsigned(IF signed THEN Tail(t) ELSE t)

\* seconds in one unit of the extended duration syntax
UnitSeconds(c) ==
    CASE c = "s" -> 1
      [] c = "m" -> 60
      [] c = "h" -> 3600
      [] c = "d" -> 86400
      [] c = "w" -> 604800

IsUnit(c) == c \in {"s", "m", "h", "d", "w"}

\* the digits that t starts with
RECURSIVE LeadingDigits(_)
LeadingDigits(t) ==
    IF t # <<>> /\ IsDigit(t[1]) THEN <<t[1]>> \o LeadingDigits(Tail(t)) ELSE <<>>

\* libtime.ParseDuration: one or more <digits><unit> groups, in seconds
RECURSIVE ParseDurationGroups(_)
ParseDurationGroups(t) ==
    LET plus(seconds, more) == IF more.ok THEN Ok(seconds + more.v) ELSE Fail
        group(ds, rest) ==
            IF ds = <<>> \/ rest = <<>> \/ ~IsUnit(rest[1]) THEN Fail
            ELSE IF Len(rest) = 1 THEN Ok(DecimalValue(ds) * UnitSeconds(rest[1]))
            ELSE plus(DecimalValue(ds) * UnitSeconds(rest[1]),
                      ParseDurationGroups(Tail(rest)))
        after(ds) == group(ds, SubSeq(t, Len(ds) + 1, Len(t)))
    IN  after(LeadingDigits(t))

ParseDuration(t) == ParseDurationGroups(t)

\* ------------------------------------------------------------------------
\* Go values and types
\* ------------------------------------------------------------------------
\* A Go value: k names what it is, n carries a number (an integer, a boolean
\* as 0 or 1, a float in tenths, a duration in seconds), s a text and l the
\* elements of a list.
StrV(t) == [k |-> "str", n |-> 0, s |-> t, l |-> <<>>]
NumV(i) == [k |-> "num", n |-> i, s |-> <<>>, l |-> <<>>]
BoolV(b) == [k |-> "bool", n |-> b, s |-> <<>>, l |-> <<>>]
FloatV(f) == [k |-> "float", n |-> f, s |-> <<>>, l |-> <<>>]
ListV(es) == [k |-> "list", n |-> 0, s |-> <<>>, l |-> es]
\* an int or int64 of more than eight digits, kept as its decimal text
BigV(t) == [k |-> "big", n |-> 0, s |-> t, l |-> <<>>]
\* a nil pointer or a nil slice
NilV == [k |-> "nil", n |-> 0, s |-> <<>>, l |-> <<>>]

\* The field types of the model. kind is reflect.Kind, named says that the type
\* has a package path, elem is the element type of a slice or pointer,
\* unmarshal and marshal say whether the type implements
\* encoding.TextUnmarshaler and encoding.TextMarshaler, validate whether it
\* implements HasValidation.
TypeInfo(T) ==
    CASE T = "string" ->
           [kind |-> "string", named |-> FALSE, elem |-> "", unmarshal |-> FALSE,
            marshal |-> FALSE, validate |-> FALSE]
      [] T = "bool" ->
           [kind |-> "bool", named |-> FALSE, elem |-> "", unmarshal |-> FALSE,
            marshal |-> FALSE, validate |-> FALSE]
      [] T = "int" ->
           [kind |-> "int", named |-> FALSE, elem |-> "", unmarshal |-> FALSE,
            marshal |-> FALSE, validate |-> FALSE]
      [] T = "int32" ->
           [kind |-> "int32", named |-> FALSE, elem |-> "", unmarshal |-> FALSE,
            marshal |-> FALSE, validate |-> FALSE]
      [] T = "float64" ->
           [kind |-> "float64", named |-> FALSE, elem |-> "", unmarshal |-> FALSE,
            marshal |-> FALSE, validate |-> FALSE]
      [] T = "*float64" ->
           [kind |-> "ptr", named |-> FALSE, elem |-> "float64", unmarshal |-> FALSE,
            marshal |-> FALSE, validate |-> FALSE]
      [] T = "time.Duration" ->
           [kind |-> "int64", named |-> TRUE, elem |-> "", unmarshal |-> FALSE,
            marshal |-> FALSE, validate |-> FALSE]
      [] T = "[]string" ->
           [kind |-> "slice", named |-> FALSE, elem |-> "string", unmarshal |-> FALSE,
            marshal |-> FALSE, validate |-> FALSE]
      [] T = "[]int" ->
           [kind |-> "slice", named |-> FALSE, elem |-> "int", unmarshal |-> FALSE,
            marshal |-> FALSE, validate |-> FALSE]
      [] T = "Username" ->
           [kind |-> "string", named |-> TRUE, elem |-> "", unmarshal |-> FALSE,
            marshal |-> FALSE, validate |-> FALSE]
      [] T = "testPort" ->
           [kind |-> "int", named |-> TRUE, elem |-> "", unmarshal |-> FALSE,
            marshal |-> FALSE, validate |-> TRUE]
      [] T = "IsActive" ->
           [kind |-> "bool", named |-> TRUE, elem |-> "", unmarshal |-> FALSE,
            marshal |-> FALSE, validate |-> FALSE]
      [] T = "TestBroker" ->
           [kind |-> "string", named |-> TRUE, elem |-> "", unmarshal |-> TRUE,
            marshal |-> FALSE, validate |-> FALSE]
      [] T = "TestURL" ->
           [kind |-> "string", named |-> TRUE, elem |-> "", unmarshal |-> TRUE,
            marshal |-> FALSE, validate |-> FALSE]
      [] T = "Brokers" ->
           [kind |-> "slice", named |-> TRUE, elem |-> "TestBroker", unmarshal |-> TRUE,
            marshal |-> TRUE, validate |-> FALSE]
      [] T = "testBroker" ->
           [kind |-> "string", named |-> TRUE, elem |-> "", unmarshal |-> FALSE,
            marshal |-> FALSE, validate |-> TRUE]
      [] T = "[]testBroker" ->
           [kind |-> "slice", named |-> FALSE, elem |-> "testBroker", unmarshal |-> FALSE,
            marshal |-> FALSE, validate |-> FALSE]
      [] T = "testBrokers" ->
           [kind |-> "slice", named |-> TRUE, elem |-> "testBroker", unmarshal |-> FALSE,
            marshal |-> FALSE, validate |-> TRUE]
      [] T = "*testPort" ->
           [kind |-> "ptr", named |-> FALSE, elem |-> "testPort", unmarshal |-> FALSE,
            marshal |-> FALSE, validate |-> TRUE]
      \* a type of a caller, not of the repository: a text type whose
      \* UnmarshalText puts a mark in front of every text
      [] T = "Marked" ->
           [kind |-> "string", named |-> TRUE, elem |-> "", unmarshal |-> TRUE,
            marshal |-> FALSE, validate |-> FALSE]

\* the zero value of a type
ZeroValue(T) ==
    LET zero(kind) ==
            CASE kind = "string" -> StrV(<<>>)
              [] kind = "bool" -> BoolV(0)
              [] kind \in {"int", "int32", "int64"} -> NumV(0)
              [] kind = "float64" -> FloatV(0)
              [] kind \in {"ptr", "slice"} -> NilV
    IN  zero(TypeInfo(T).kind)

SchemeMark == <<":", "/", "/">>
PlainScheme == <<"p", "l", "a", "i", "n", ":", "/", "/">>
HttpScheme == <<"h", "t", "t", "p", ":", "/", "/">>
HttpsScheme == <<"h", "t", "t", "p", "s", ":", "/", "/">>

\* (*TestBroker).UnmarshalText: keeps a text that names a scheme, otherwise
\* puts plain:// in front
TestBrokerUnmarshalText(t) ==
    IF Contains(t, SchemeMark) THEN Ok(StrV(t)) ELSE Ok(StrV(PlainScheme \o t))

\* (*TestURL).UnmarshalText: rejects the empty text and a text without an
\* http:// or https:// prefix
TestURLUnmarshalText(t) ==
    IF t = <<>> THEN Fail
    ELSE IF ~HasPrefix(t, HttpScheme) /\ ~HasPrefix(t, HttpsScheme) THEN Fail
    ELSE Ok(StrV(t))

\* UnmarshalText of a list type that decodes the whole text itself: the text
\* is split on commas, each part decoded as a TestBroker, and the empty text
\* is rejected (a list that must not be empty)
BrokersUnmarshalText(t) ==
    IF t = <<>> THEN Fail
    ELSE LET brokers(parts) ==
                 Ok(ListV([i \in 1..Len(parts) |-> TestBrokerUnmarshalText(parts[i]).v]))
         IN  brokers(Split(t, <<",">>))

\* MarshalText of that list type: the elements joined by commas
BrokersMarshalText(v) ==
    Join([i \in 1..Len(v.l) |-> v.l[i].s], <<",">>)

\* the UnmarshalText method of a type that has one
UnmarshalText(T, t) ==
    CASE T = "TestBroker" -> TestBrokerUnmarshalText(t)
      [] T = "TestURL" -> TestURLUnmarshalText(t)
      [] T = "Brokers" -> BrokersUnmarshalText(t)
      [] T = "Marked" -> Ok(StrV(<<"#">> \o t))

\* ------------------------------------------------------------------------
\* Struct fields and their tags
\* ------------------------------------------------------------------------
\* the result of reflect.StructTag.Lookup: whether the tag is there, and its text
Tag(t) == [ok |-> TRUE, v |-> t]
NoTag == [ok |-> FALSE, v |-> <<>>]

\* a field on which a resolver has no opinion, a resolved value, and a failure
\* of the given kind; marshal says that the value's dynamic type implements
\* encoding.TextMarshaler
Skip == [st |-> "skip", v |-> NilV, marshal |-> FALSE, kind |-> ""]
Val(v) == [st |-> "ok", v |-> v, marshal |-> FALSE, kind |-> ""]
Err(kind) == [st |-> "err", v |-> NilV, marshal |-> FALSE, kind |-> kind]

\* the separator of a list field: the separator tag, a comma when it is
\* missing or empty
SeparatorOf(f) == IF f.separator.ok /\ f.separator.v # <<>> THEN f.separator.v ELSE <<",">>

\* the parts of a list text, were the empty ones kept
TrimmedPartsKeepEmpty(value, separator) ==
    LET trimmed(parts) == [i \in 1..Len(parts) |-> TrimSpace(parts[i])]
    IN  trimmed(Split(value, separator))

\* the parts of a list text: split, trimmed, the empty parts dropped
TrimmedParts(value, separator) ==
    LET trimmed(parts) == [i \in 1..Len(parts) |-> TrimSpace(parts[i])]
    IN  SelectSeq(trimmed(Split(value, separator)), LAMBDA x : x # <<>>)

\* parseSliceFromString: the list value of a text, or a failure
parseSliceFromString(value, separator, elemType) ==
    IF value = <<>> THEN Val(ListV(<<>>))
    ELSE LET elems(trimmed, kind) ==
                 IF trimmed = <<>> THEN Val(ListV(<<>>))
                 ELSE IF kind = "string"
                 THEN Val(ListV([i \in 1..Len(trimmed) |-> StrV(trimmed[i])]))
                 ELSE IF kind = "int"
                 THEN IF \A i \in 1..Len(trimmed) : Atoi(trimmed[i]).ok
                      THEN Val(ListV([i \in 1..Len(trimmed) |-> NumV(Atoi(trimmed[i]).v)]))
                      ELSE Err("parse")
                 ELSE IF kind = "float64"
                 THEN IF \A i \in 1..Len(trimmed) : ParseFloat(trimmed[i]).ok
                      THEN Val(ListV([i \in 1..Len(trimmed) |->
                                         FloatV(ParseFloat(trimmed[i]).v)]))
                      ELSE Err("parse")
                 ELSE IF kind = "bool"
                 THEN IF \A i \in 1..Len(trimmed) : ParseBool(trimmed[i]).ok
                      THEN Val(ListV([i \in 1..Len(trimmed) |->
                                         BoolV(ParseBool(trimmed[i]).v)]))
                      ELSE Err("parse")
                 ELSE Err("unsupported")
         IN  elems(TrimmedParts(value, separator), TypeInfo(elemType).kind)

\* a strconv result as a resolved value, or a parse failure
Parsed(r, k) ==
    IF r.ok THEN Val([k |-> k, n |-> r.v, s |-> <<>>, l |-> <<>>]) ELSE Err("parse")

\* strconv.ParseInt(t, base, 64) as a Go int: a number of many digits is
\* accepted when it lies in the range of int64
IntValue(t, base) ==
    IF IsBig(t)
    THEN IF InRange(t, 64) THEN Val(BigV(t)) ELSE Err("parse")
    ELSE Parsed(ParseInt(t, base), "num")

\* v, err := strconv.ParseInt(t, 10, 0) followed by int32(v): the text is
\* parsed as a 64 bit number and the conversion keeps its low 32 bits
Int32Value(t) ==
    IF IsBig(t)
    THEN IF InRange(t, 64) THEN Val(NumV(Int32Of(t))) ELSE Err("parse")
    ELSE Parsed(ParseInt(t, 10), "num")

\* the type the named-type helpers look at: pointers are followed
Underlying(T) == IF TypeInfo(T).kind = "ptr" THEN TypeInfo(T).elem ELSE T

\* handleCustomTypeDefault: a named type is converted like its kind
handleCustomTypeDefault(f, value) ==
    LET byKind(info) ==
            IF ~info.named THEN [handled |-> FALSE, r |-> Skip]
            ELSE CASE info.kind = "string" -> [handled |-> TRUE, r |-> Val(StrV(value))]
                   [] info.kind = "bool" ->
                        [handled |-> TRUE, r |-> Parsed(ParseBool(value), "bool")]
                   [] info.kind = "int" ->
                        [handled |-> TRUE, r |-> Parsed(Atoi(value), "num")]
                   [] info.kind = "int64" ->
                        [handled |-> TRUE, r |-> Parsed(ParseInt(value, 10), "num")]
                   [] info.kind = "float64" ->
                        [handled |-> TRUE, r |-> Parsed(ParseFloat(value), "float")]
                   [] OTHER -> [handled |-> FALSE, r |-> Skip]
    IN  byKind(TypeInfo(Underlying(f.type)))

\* DefaultValues, one field: the value of its default tag; ef.Interface()
\* panics on a field that is not exported
DefaultField(f) ==
    IF ~f.default.ok THEN Skip
    ELSE IF f.private THEN Err("panic")
    ELSE LET value == f.default.v
         IN  CASE f.type = "string" -> Val(StrV(value))
               [] f.type = "bool" -> Parsed(ParseBool(value), "bool")
               [] f.type = "int" -> Parsed(Atoi(value), "num")
               [] f.type = "int32" -> Int32Value(value)
               [] f.type = "float64" -> Parsed(ParseFloat(value), "float")
               [] f.type = "*float64" -> Parsed(ParseFloat(value), "float")
               [] f.type = "time.Duration" ->
                    Parsed(ParseDuration(value), "num")
               [] OTHER ->
                    LET custom(h) == IF h.handled THEN h.r ELSE Err("unsupported")
                    IN  custom(handleCustomTypeDefault(f, value))

\* ------------------------------------------------------------------------
\* Environment resolver
\* ------------------------------------------------------------------------
\* the map with one more binding, were an earlier one of the name kept
BindFirst(m, name, value) == m @@ (name :> value)

\* the map with one more binding, were a variable with the empty text not set
BindNonEmpty(m, name, value) == IF value = <<>> THEN m ELSE (name :> value) @@ m

\* the map with one more binding, which replaces an earlier one of the name
Bind(m, name, value) == (name :> value) @@ m

\* the inner loop of envToValues over one entry, from position i on: every
\* '=' of the entry binds the text before it to the text after it
RECURSIVE BindEntry(_, _, _)
BindEntry(m, env, i) ==
    IF i > Len(env) THEN m
    ELSE IF env[i] = "="
         THEN BindEntry(Bind(m, SubSeq(env, 1, i - 1), SubSeq(env, i + 1, Len(env))),
                        env, i + 1)
         ELSE BindEntry(m, env, i + 1)

\* the outer loop of envToValues: the name to text map of an environment block
RECURSIVE EnvMap(_, _)
EnvMap(m, environ) ==
    IF environ = <<>> THEN m
    ELSE EnvMap(BindEntry(m, environ[1], 1), Tail(environ))

EmptyMap == [x \in {} |-> <<>>]

\* handleCustomTypeEnv: a named type is converted like its kind
handleCustomTypeEnv(f, value) ==
    LET byKind(info) ==
            IF ~info.named THEN [handled |-> FALSE, r |-> Skip]
            ELSE CASE info.kind = "string" -> [handled |-> TRUE, r |-> Val(StrV(value))]
                   [] info.kind = "bool" ->
                        [handled |-> TRUE, r |-> Parsed(ParseBool(value), "bool")]
                   [] info.kind = "int" ->
                        [handled |-> TRUE, r |-> Parsed(Atoi(value), "num")]
                   [] info.kind = "int64" ->
                        [handled |-> TRUE, r |-> Parsed(ParseInt(value, 10), "num")]
                   [] info.kind = "float64" ->
                        [handled |-> TRUE, r |-> Parsed(ParseFloat(value), "float")]
                   [] OTHER -> [handled |-> FALSE, r |-> Skip]
    IN  byKind(TypeInfo(Underlying(f.type)))

\* an environment resolver that knows the four primitive types only and
\* passes over a field of any other type
EnvFieldPrimitivesOnly(f, envValues) ==
    IF ~f.env.ok \/ f.env.v \notin DOMAIN envValues THEN Skip
    ELSE LET value == envValues[f.env.v]
         IN  CASE f.type = "string" -> Val(StrV(value))
               [] f.type = "bool" -> Parsed(ParseBool(value), "bool")
               [] f.type = "int" -> Parsed(Atoi(value), "num")
               [] f.type = "float64" -> Parsed(ParseFloat(value), "float")
               [] OTHER -> Skip

\* envToValues, one field: the value of its environment variable;
\* ef.Interface() panics on a field that is not exported
EnvField(f, envValues) ==
    IF ~f.env.ok \/ f.env.v \notin DOMAIN envValues THEN Skip
    ELSE IF f.private THEN Err("panic")
    ELSE LET value == envValues[f.env.v]
         IN  CASE f.type = "string" -> Val(StrV(value))
               [] f.type = "bool" -> Parsed(ParseBool(value), "bool")
               [] f.type = "int" -> Parsed(Atoi(value), "num")
               [] f.type = "int32" -> Int32Value(value)
               [] f.type = "float64" -> Parsed(ParseFloat(value), "float")
               [] f.type = "time.Duration" -> Parsed(ParseDuration(value), "num")
               [] OTHER ->
                    LET unmarshalled(u) ==
                            IF u.ok
                            THEN [Val(u.v) EXCEPT !.marshal = TypeInfo(f.type).marshal]
                            ELSE Err("parse")
                        slice(parsed) == IF parsed.st = "err" THEN Err("parse") ELSE parsed
                        custom(h) == IF h.handled THEN h.r ELSE Err("unsupported")
                    IN  IF TypeInfo(f.type).unmarshal
                        THEN unmarshalled(UnmarshalText(f.type, value))
                        ELSE IF TypeInfo(f.type).kind = "slice"
                        THEN slice(parseSliceFromString(value, SeparatorOf(f),
                                                        TypeInfo(f.type).elem))
                        ELSE custom(handleCustomTypeEnv(f, value))

\* ------------------------------------------------------------------------
\* Running a resolver over the fields of a struct
\* ------------------------------------------------------------------------
\* the value map of the per-field results rs (one per field, in order), or
\* the first failure: the loop returns at the first field that fails
FirstErr(rs) ==
    IF \E i \in 1..Len(rs) : rs[i].st = "err"
    THEN CHOOSE i \in 1..Len(rs) : rs[i].st = "err" /\ \A j \in 1..(i - 1) : rs[j].st # "err"
    ELSE 0

ValuesOf(fields, rs) ==
    LET keys == {fields[i].name : i \in {j \in 1..Len(rs) : rs[j].st = "ok"}}
    IN  [k \in keys |-> rs[CHOOSE i \in 1..Len(rs) : fields[i].name = k /\ rs[i].st = "ok"]]

\* the outcome of a step: no error, or an error with the stage and kind of
\* failure, the field it names and, for a missing required field, the
\* parameter and environment names of the message
NoError ==
    [status |-> "ok", stage |-> "", kind |-> "", field |-> "",
     param |-> NoTag, env |-> NoTag, or |-> FALSE]

Error(stage, kind, field) ==
    [status |-> "error", stage |-> stage, kind |-> kind, field |-> field,
     param |-> NoTag, env |-> NoTag, or |-> FALSE]

\* DefaultValues: the default map of a struct, or the first failure
DefaultValues(fields) ==
    LET outcome(rs, e) ==
            IF e # 0
            THEN [err |-> Error("default", rs[e].kind, fields[e].name), values |-> EmptyMap]
            ELSE [err |-> NoError, values |-> ValuesOf(fields, rs)]
        loop(rs) == outcome(rs, FirstErr(rs))
    IN  loop([i \in 1..Len(fields) |-> DefaultField(fields[i])])

\* envToValues: the environment map of a struct, or the first failure
envToValues(fields, environ) ==
    LET outcome(rs, e) ==
            IF e # 0
            THEN [err |-> Error("env", rs[e].kind, fields[e].name), values |-> EmptyMap]
            ELSE [err |-> NoError, values |-> ValuesOf(fields, rs)]
        loop(rs) == outcome(rs, FirstErr(rs))
        over(envValues) == loop([i \in 1..Len(fields) |-> EnvField(fields[i], envValues)])
    IN  over(EnvMap(EmptyMap, environ))

\* ------------------------------------------------------------------------
\* Argument resolver: flags on flag.CommandLine
\* ------------------------------------------------------------------------
\* the value of a strconv result, the zero when the text is malformed: the
\* code drops the error (defaultValue, _ := strconv...)
OrZero(r) == IF r.ok THEN r.v ELSE 0

\* defaultValue, _ := strconv.ParseInt(t, 10, 0): the error is dropped, and
\* with it ParseInt's value is 0 for a text that is no number and the nearest
\* end of the range of int64 for a number outside of it
IntOrClamped(t) ==
    LET clamped(e) ==
            IF e.st = "ok" THEN e.v
            ELSE IF ~IsBig(t) THEN NumV(0)
            ELSE IF IsNegative(t)
            THEN BigV(<<"-">> \o [MaxDigits(64) EXCEPT ![Len(MaxDigits(64))] = "8"])
            ELSE BigV(MaxDigits(64))
    IN  clamped(IntValue(t, 10))

\* a flag bound to a variable (flag.String, flag.Bool, flag.Int, flag.Float64)
\* with its starting value, and a flag bound to a callback (flag.Func) with the
\* entry the callback's field has in the value map before parsing
VarFlag(fkind, init) == [st |-> "flag", fkind |-> fkind, pre |-> Val(init)]
FuncFlag(pre) == [st |-> "flag", fkind |-> "func", pre |-> pre]
NoFlag(kind) == [st |-> "err", fkind |-> "", pre |-> Err(kind)]

\* handleCustomType: a named type gets the flag of its kind
handleCustomType(f) ==
    LET defaultString == f.default.v
        byKind(info) ==
            IF ~info.named THEN NoFlag("unsupported")
            ELSE CASE info.kind = "string" -> VarFlag("string", StrV(defaultString))
                   [] info.kind = "bool" ->
                        VarFlag("bool", BoolV(OrZero(ParseBool(defaultString))))
                   [] info.kind = "int" -> VarFlag("int", NumV(OrZero(Atoi(defaultString))))
                   [] info.kind = "int64" ->
                        VarFlag("int", NumV(OrZero(ParseInt(defaultString, 10))))
                   [] info.kind = "float64" ->
                        VarFlag("float64", FloatV(OrZero(ParseFloat(defaultString))))
                   [] OTHER -> NoFlag("unsupported")
    IN  byKind(TypeInfo(Underlying(f.type)))

\* the body of the field loop of argsToValues: the flag a field registers
ArgField(f) ==
    LET defaultString == f.default.v
        found == f.default.ok
    IN  CASE f.private -> NoFlag("panic")
          [] f.type = "string" -> VarFlag("string", StrV(defaultString))
          [] f.type = "bool" -> VarFlag("bool", BoolV(OrZero(ParseBool(defaultString))))
          [] f.type = "int" -> VarFlag("int", NumV(OrZero(Atoi(defaultString))))
          [] f.type = "int32" -> VarFlag("int", IntOrClamped(defaultString))
          [] f.type = "float64" ->
               VarFlag("float64", FloatV(OrZero(ParseFloat(defaultString))))
          [] f.type = "*float64" ->
               FuncFlag(IF found THEN Val(FloatV(OrZero(ParseFloat(defaultString))))
                        ELSE Skip)
          [] f.type = "time.Duration" ->
               LET preset(d) == FuncFlag(IF found /\ d.ok THEN Val(NumV(d.v)) ELSE Skip)
               IN  preset(ParseDuration(defaultString))
          [] OTHER ->
               IF TypeInfo(f.type).kind = "slice"
               THEN IF found /\ defaultString # <<>>
                    THEN LET preset(parsed) ==
                                 IF parsed.st = "err" THEN NoFlag("default")
                                 ELSE FuncFlag(parsed)
                         IN  preset(parseSliceFromString(defaultString, SeparatorOf(f),
                                                         TypeInfo(f.type).elem))
                    ELSE FuncFlag(Skip)
               ELSE handleCustomType(f)

\* a callback that stores the zero for the empty text of a pointer field
FuncSetZeroOnEmpty(f, cur, s) ==
    CASE f.type = "*float64" ->
           IF s = <<>> THEN Val(FloatV(0)) ELSE Parsed(ParseFloat(s), "float")
      [] f.type = "time.Duration" ->
           IF s = <<>> THEN cur ELSE Parsed(ParseDuration(s), "num")
      [] OTHER -> parseSliceFromString(s, SeparatorOf(f), TypeInfo(f.type).elem)

\* the callback of a flag.Func flag: the entry of the field after the flag was
\* given the text s, or a failure; cur is the entry before
FuncSet(f, cur, s) ==
    CASE f.type = "*float64" ->
           IF s = <<>> THEN cur ELSE Parsed(ParseFloat(s), "float")
      [] f.type = "time.Duration" ->
           IF s = <<>> THEN cur ELSE Parsed(ParseDuration(s), "num")
      [] OTHER -> parseSliceFromString(s, SeparatorOf(f), TypeInfo(f.type).elem)

\* flag.Value.Set of a flag of the given kind
FlagSet(fkind, f, cur, s) ==
    CASE fkind = "string" -> Val(StrV(s))
      [] fkind = "bool" -> Parsed(ParseBool(s), "bool")
      [] fkind = "int" -> IntValue(s, 0)
      [] fkind = "float64" -> Parsed(ParseFloat(s), "float")
      [] fkind = "func" -> FuncSet(f, cur, s)

\* the fields of a struct that carry an arg tag, as indexes
ArgFields(fields) == {i \in 1..Len(fields) : fields[i].arg.ok}

\* the field whose flag has the given name, 0 when no flag has it
FlagOf(fields, name) ==
    IF \E i \in ArgFields(fields) : fields[i].arg.v = name
    THEN CHOOSE i \in ArgFields(fields) : fields[i].arg.v = name
    ELSE 0

\* flag.FlagSet.Parse: the arguments are taken one flag at a time; vals holds
\* the entry of every field. The result is the entries after the last flag and
\* whether parsing failed.
RECURSIVE ParseFlags(_, _, _, _)
ParseFlags(fields, flags, vals, args) ==
    IF args = <<>> THEN [failed |-> FALSE, vals |-> vals]
    ELSE
    LET s == args[1]
    IN  IF Len(s) < 2 \/ s[1] # "-" THEN [failed |-> FALSE, vals |-> vals]
        ELSE IF s = <<"-", "-">> THEN [failed |-> FALSE, vals |-> vals]
        ELSE
        LET numMinuses == IF s[2] = "-" THEN 2 ELSE 1
            parseOne(long, eq, i) ==
                IF long = <<>> \/ long[1] \in {"-", "="} THEN [failed |-> TRUE, vals |-> vals]
                ELSE IF i = 0 THEN [failed |-> TRUE, vals |-> vals]
                ELSE
                LET isBool == flags[i].fkind = "bool"
                    takesNext == ~isBool /\ eq = 0 /\ Len(args) >= 2
                    hasValue == eq # 0 \/ takesNext
                    value == IF eq # 0 THEN SubSeq(long, eq + 1, Len(long))
                             ELSE IF takesNext THEN args[2]
                             ELSE <<"t", "r", "u", "e">>
                    rest == IF takesNext THEN SubSeq(args, 3, Len(args)) ELSE Tail(args)
                    key == fields[i].name
                    assign(set) ==
                        IF ~isBool /\ ~hasValue THEN [failed |-> TRUE, vals |-> vals]
                        ELSE IF set.st = "err" THEN [failed |-> TRUE, vals |-> vals]
                        ELSE ParseFlags(fields, flags, [vals EXCEPT ![key] = set], rest)
                IN  assign(FlagSet(flags[i].fkind, fields[i], vals[key], value))
            named(long, eq) ==
                parseOne(long, eq,
                         FlagOf(fields, IF eq = 0 THEN long ELSE SubSeq(long, 1, eq - 1)))
            split(long) ==
                named(long,
                      IF \E i \in 2..Len(long) : long[i] = "="
                      THEN CHOOSE i \in 2..Len(long) :
                              long[i] = "=" /\ \A j \in 2..(i - 1) : long[j] # "="
                      ELSE 0)
        IN  split(SubSeq(s, numMinuses + 1, Len(s)))

\* whether registering the flags of the struct panics: flag.CommandLine
\* already has a flag of one of the names, or two fields share a name
Redefines(fields, defined) ==
    \/ \E i \in ArgFields(fields) : fields[i].arg.v \in defined
    \/ \E i, j \in ArgFields(fields) : i # j /\ fields[i].arg.v = fields[j].arg.v

\* the fields registered before the field loop stops: all of them, or those
\* before the first field whose type has no flag
Registered(fields, flags) ==
    LET bad == {i \in ArgFields(fields) : flags[i].st = "err"}
    IN  {i \in ArgFields(fields) : \A b \in bad : i < b}

\* argsToValues: the argument map of a struct, or the failure
argsToValues(fields, args) ==
    LET names == {fields[i].name : i \in ArgFields(fields)}
        outcome(flags, bad, parsed) ==
            IF bad # {}
            THEN LET e == CHOOSE i \in bad : \A j \in bad : i <= j
                 IN  [err |-> Error("args", flags[e].pre.kind, fields[e].name),
                      values |-> EmptyMap]
            ELSE IF parsed.failed
            THEN [err |-> Error("args", "flag", ""), values |-> EmptyMap]
            ELSE [err |-> NoError,
                  values |-> [k \in {n \in names : parsed.vals[n].st = "ok"} |->
                                parsed.vals[k]]]
        registered(flags) ==
            outcome(flags,
                    {i \in ArgFields(fields) : flags[i].st = "err"},
                    ParseFlags(fields, flags,
                               [k \in names |->
                                  flags[CHOOSE i \in ArgFields(fields) :
                                           fields[i].name = k].pre],
                               args))
    IN  registered([i \in 1..Len(fields) |->
                      IF fields[i].arg.ok THEN ArgField(fields[i]) ELSE NoFlag("")])

\* ------------------------------------------------------------------------
\* Merge and Fill
\* ------------------------------------------------------------------------
\* a merge in which the argument map is applied last, so that an argument
\* overwrites the environment
mergeValuesArgsLast(first, second, third) == second @@ third @@ first

\* mergeValues of three maps: a later map overwrites an earlier one
mergeValues(first, second, third) == third @@ second @@ first

\* JSON values; a number is kept in tenths so that a fraction is told from an
\* integer
JString(t) == [j |-> "string", n |-> 0, s |-> t, l |-> <<>>]
JNumber(tenths) == [j |-> "number", n |-> tenths, s |-> <<>>, l |-> <<>>]
JBool(b) == [j |-> "bool", n |-> b, s |-> <<>>, l |-> <<>>]
JArray(es) == [j |-> "array", n |-> 0, s |-> <<>>, l |-> es]
JNull == [j |-> "null", n |-> 0, s |-> <<>>, l |-> <<>>]
\* a JSON number of many digits, kept as its text
JBigNumber(t) == [j |-> "bignumber", n |-> 0, s |-> t, l |-> <<>>]

\* json.Marshal of a value that is not a list
EncodeScalar(v) ==
    CASE v.k = "str" -> JString(v.s)
      [] v.k = "num" ->
           IF v.n > 99999999 THEN JBigNumber(Itoa(v.n))
           ELSE IF v.n < 0 - 99999999 THEN JBigNumber(<<"-">> \o Itoa(0 - v.n))
           ELSE JNumber(10 * v.n)
      [] v.k = "big" -> JBigNumber(v.s)
      [] v.k = "float" -> JNumber(v.n)
      [] v.k = "bool" -> JBool(v.n)
      [] OTHER -> JNull

\* the encoding half of Fill: a value that implements encoding.TextMarshaler
\* becomes the JSON string of its text, a list a JSON array
Encode(e) ==
    IF e.marshal THEN JString(BrokersMarshalText(e.v))
    ELSE IF e.v.k = "list" THEN JArray([i \in 1..Len(e.v.l) |-> EncodeScalar(e.v.l[i])])
    ELSE EncodeScalar(e.v)

\* json.Unmarshal of a JSON value into a slot that is not a list: the new
\* content of the slot, and whether the value did not fit the type ("type",
\* the decoder notes the error and goes on) or the type's UnmarshalText
\* failed ("hook", the decoder stops)
DecodeScalar(T, j, cur) ==
    LET hooked(u) == IF u.ok THEN [st |-> "ok", v |-> u.v] ELSE [st |-> "hook", v |-> cur]
        plain(kind) ==
            CASE kind = "string" /\ j.j = "string" -> [st |-> "ok", v |-> StrV(j.s)]
              [] kind = "bool" /\ j.j = "bool" -> [st |-> "ok", v |-> BoolV(j.n)]
              [] kind \in {"int", "int32", "int64"} /\ j.j = "number" /\ j.n % 10 = 0 ->
                   [st |-> "ok", v |-> NumV(j.n \div 10)]
              [] kind \in {"int", "int64"} /\ j.j = "bignumber" ->
                   [st |-> "ok", v |-> BigV(j.s)]
              [] kind = "int32" /\ j.j = "bignumber" /\ InRange(j.s, 32) ->
                   [st |-> "ok", v |-> NumV(Int32Of(j.s))]
              [] kind = "float64" /\ j.j = "number" -> [st |-> "ok", v |-> FloatV(j.n)]
              [] OTHER -> [st |-> "type", v |-> cur]
        into(info) ==
            IF j.j = "null" THEN [st |-> "ok", v |-> IF info.kind = "ptr" THEN NilV ELSE cur]
            ELSE IF info.unmarshal
            THEN IF j.j = "string" THEN hooked(UnmarshalText(T, j.s))
                 ELSE [st |-> "type", v |-> cur]
            ELSE plain(IF info.kind = "ptr" THEN TypeInfo(info.elem).kind ELSE info.kind)
    IN  into(TypeInfo(T))

\* json.Unmarshal of a JSON value into the slot of a field of type T
Decode(T, j, cur) ==
    LET elems(ds) ==
            IF \E i \in 1..Len(ds) : ds[i].st = "hook" THEN [st |-> "hook", v |-> cur]
            ELSE [st |-> IF \E i \in 1..Len(ds) : ds[i].st = "type"
                         THEN "type" ELSE "ok",
                  v |-> ListV([i \in 1..Len(ds) |-> ds[i].v])]
        into(info) ==
            IF info.kind = "slice" /\ ~info.unmarshal
            THEN IF j.j = "null" THEN [st |-> "ok", v |-> NilV]
                 ELSE IF j.j # "array" THEN [st |-> "type", v |-> cur]
                 ELSE elems([i \in 1..Len(j.l) |->
                               DecodeScalar(info.elem, j.l[i], ZeroValue(info.elem))])
            ELSE IF j.j = "array" THEN [st |-> "type", v |-> cur]
            ELSE DecodeScalar(T, j, cur)
    IN  into(TypeInfo(T))

\* the decoding half of Fill from field i on: the keys of the JSON object are
\* met in sorted order, which is the order of the fields for the structs of
\* this model. noted is the first error the decoder has noted so far.
RECURSIVE FillFrom(_, _, _, _, _)
FillFrom(fields, target, values, i, noted) ==
    IF i > Len(fields) THEN [err |-> noted, target |-> target]
    ELSE LET f == fields[i]
         IN  IF f.name \notin DOMAIN values
             THEN FillFrom(fields, target, values, i + 1, noted)
             ELSE LET store(d) ==
                          IF d.st = "hook"
                          THEN [err |-> Error("fill", "hook", f.name), target |-> target]
                          ELSE FillFrom(fields, [target EXCEPT ![f.name] = d.v], values, i + 1,
                                        IF d.st = "type" /\ noted.status = "ok"
                                        THEN Error("fill", "type", f.name)
                                        ELSE noted)
                  IN  store(Decode(f.type, Encode(values[f.name]), target[f.name]))

\* a Fill that decodes into a new zero struct and assigns it to the target
FillFresh(fields, target, values) ==
    FillFrom(fields,
             [n \in DOMAIN target |->
                ZeroValue(fields[CHOOSE k \in 1..Len(fields) : fields[k].name = n].type)],
             values, 1, NoError)

\* Fill: the value map is encoded as JSON and decoded into the struct
Fill(fields, target, values) == FillFrom(fields, target, values, 1, NoError)

\* ------------------------------------------------------------------------
\* Validation
\* ------------------------------------------------------------------------
\* an error message that leaves out the environment name
RequiredErrorParamOnly(f) ==
    [status |-> "error", stage |-> "required", kind |-> "empty", field |-> f.name,
     param |-> f.arg, env |-> NoTag, or |-> FALSE]

\* createError of validateRequiredField: "Required field empty, " followed by
\* "define parameter <arg>" and "define env <env>", joined by " or "
RequiredError(f) ==
    [status |-> "error", stage |-> "required", kind |-> "empty", field |-> f.name,
     param |-> f.arg, env |-> f.env, or |-> f.arg.ok /\ f.env.ok]

\* a check of named types that takes the zero of every kind, false included,
\* for empty
handleCustomTypeValidationZero(f, v) ==
    [handled |-> TypeInfo(Underlying(f.type)).named,
     err |-> IF v = ZeroValue(f.type) THEN RequiredError(f) ELSE NoError]

\* handleCustomTypeValidation: a named type is empty when it is the zero of
\* its kind, a named boolean never is
handleCustomTypeValidation(f, v) ==
    LET byKind(info) ==
            IF ~info.named THEN [handled |-> FALSE, err |-> NoError]
            ELSE CASE info.kind = "string" ->
                        [handled |-> TRUE,
                         err |-> IF v = ZeroValue(f.type) THEN RequiredError(f) ELSE NoError]
                   [] info.kind = "bool" -> [handled |-> TRUE, err |-> NoError]
                   [] info.kind \in {"int", "int64"} ->
                        [handled |-> TRUE,
                         err |-> IF v = ZeroValue(f.type) THEN RequiredError(f) ELSE NoError]
                   [] info.kind = "float64" ->
                        [handled |-> TRUE,
                         err |-> IF v = ZeroValue(f.type) THEN RequiredError(f) ELSE NoError]
                   [] OTHER -> [handled |-> FALSE, err |-> NoError]
    IN  byKind(TypeInfo(Underlying(f.type)))

\* a required check that looks at text fields only
validateRequiredFieldTextOnly(f, v) ==
    IF f.type = "string" /\ v = StrV(<<>>) THEN RequiredError(f) ELSE NoError

\* validateRequiredField: the error of a required field that holds v
validateRequiredField(f, v) ==
    CASE f.private -> [Error("required", "panic", f.name) EXCEPT !.status = "panic"]
      [] f.type = "string" -> IF v = StrV(<<>>) THEN RequiredError(f) ELSE NoError
      [] f.type = "bool" -> NoError
      [] f.type = "int" -> IF v = NumV(0) THEN RequiredError(f) ELSE NoError
      [] f.type = "int32" -> IF v = NumV(0) THEN RequiredError(f) ELSE NoError
      [] f.type = "float64" -> IF v = FloatV(0) THEN RequiredError(f) ELSE NoError
      [] f.type = "*float64" -> IF v = NilV THEN RequiredError(f) ELSE NoError
      [] f.type = "time.Duration" -> IF v = NumV(0) THEN RequiredError(f) ELSE NoError
      [] OTHER ->
           IF TypeInfo(f.type).kind = "ptr"
           THEN IF v = NilV THEN RequiredError(f) ELSE NoError
           ELSE IF TypeInfo(f.type).kind = "slice"
           THEN IF Len(v.l) = 0 THEN RequiredError(f) ELSE NoError
           ELSE LET custom(h) ==
                        IF h.handled THEN h.err
                        ELSE Error("required", "unsupported", f.name)
                IN  custom(handleCustomTypeValidation(f, v))

\* a pass over the required fields that goes on after a failure and returns
\* the error of the last field that fails
ValidateRequiredLast(fields, target) ==
    LET last(errs, bad) ==
            IF bad = {} THEN NoError ELSE errs[CHOOSE i \in bad : \A j \in bad : i >= j]
        loop(errs) == last(errs, {i \in 1..Len(fields) : errs[i].status # "ok"})
    IN  loop([i \in 1..Len(fields) |->
                IF fields[i].required
                THEN validateRequiredField(fields[i], target[fields[i].name])
                ELSE NoError])

\* ValidateRequired: the error of the first required field that fails
ValidateRequired(fields, target) ==
    LET first(errs, bad) ==
            IF bad = {} THEN NoError ELSE errs[CHOOSE i \in bad : \A j \in bad : i <= j]
        loop(errs) == first(errs, {i \in 1..Len(fields) : errs[i].status # "ok"})
    IN  loop([i \in 1..Len(fields) |->
                IF fields[i].required
                THEN validateRequiredField(fields[i], target[fields[i].name])
                ELSE NoError])

\* the port below which testPort.Validate and testValidatingConfig.Validate fail
MinPort == 1024

\* testPort.Validate
testPortValidate(v) == v.n >= MinPort

\* the length below which testBroker.Validate fails
MinBrokerLen == 5

\* the Validate method of a value of type T holds: testPort.Validate,
\* testBroker.Validate, testBrokers.Validate
ValidateOk(T, v) ==
    CASE T = "testPort" -> testPortValidate(v)
      [] T = "testBroker" -> Len(v.s) >= MinBrokerLen
      [] T = "testBrokers" -> Len(v.l) # 0
      [] OTHER -> TRUE

\* a validateSlice that goes on to the elements after the list's own Validate
validateSliceElementsToo(f, v) ==
    IF TypeInfo(f.type).validate /\ ~ValidateOk(f.type, v)
    THEN Error("validation", "field", f.name)
    ELSE IF TypeInfo(TypeInfo(f.type).elem).validate
            /\ \E i \in 1..Len(v.l) : ~ValidateOk(TypeInfo(f.type).elem, v.l[i])
    THEN Error("validation", "element", f.name)
    ELSE NoError

\* validateSlice: the list type's own Validate when it has one, otherwise that
\* of each element
validateSlice(f, v) ==
    IF TypeInfo(f.type).validate
    THEN IF ValidateOk(f.type, v) THEN NoError
         ELSE Error("validation", "field", f.name)
    ELSE IF TypeInfo(TypeInfo(f.type).elem).validate
            /\ \E i \in 1..Len(v.l) : ~ValidateOk(TypeInfo(f.type).elem, v.l[i])
    THEN Error("validation", "element", f.name)
    ELSE NoError

\* a validateField without the check for nil pointers: the Validate method of
\* a value receiver called through a nil pointer panics
validateFieldNoNilCheck(f, v) ==
    IF TypeInfo(f.type).kind = "slice" THEN validateSlice(f, v)
    ELSE IF TypeInfo(f.type).kind = "ptr" /\ v = NilV
    THEN IF TypeInfo(Underlying(f.type)).validate
         THEN [Error("validation", "field", f.name) EXCEPT !.status = "panic"]
         ELSE NoError
    ELSE IF TypeInfo(Underlying(f.type)).validate /\ ~ValidateOk(Underlying(f.type), v)
    THEN Error("validation", "field", f.name)
    ELSE NoError

\* validateField: the error of the Validate method of a field's value
validateField(f, v) ==
    IF TypeInfo(f.type).kind = "slice" THEN validateSlice(f, v)
    ELSE IF TypeInfo(f.type).kind = "ptr" /\ v = NilV THEN NoError
    ELSE IF TypeInfo(Underlying(f.type)).validate /\ ~ValidateOk(Underlying(f.type), v)
    THEN Error("validation", "field", f.name)
    ELSE NoError

\* (*testValidatingConfig).Validate: the struct's own hook looks at its Port
StructValidateOk(schema, target) ==
    ~schema.validate \/ testPortValidate(target["Port"])

\* a pass that validates the fields before the struct's own Validate
ValidateHasValidationFieldsFirst(schema, target) ==
    LET fields == schema.fields
        first(errs, bad) ==
            IF bad # {} THEN errs[CHOOSE i \in bad : \A j \in bad : i <= j]
            ELSE IF ~StructValidateOk(schema, target) THEN Error("validation", "struct", "")
            ELSE NoError
        loop(errs) == first(errs, {i \in 1..Len(fields) : errs[i].status # "ok"})
    IN  loop([i \in 1..Len(fields) |->
                IF fields[i].private THEN NoError
                ELSE validateField(fields[i], target[fields[i].name])])

\* ValidateHasValidation: the struct's Validate first, then the exported
\* fields in order
ValidateHasValidation(schema, target) ==
    LET fields == schema.fields
        first(errs, bad) ==
            IF ~StructValidateOk(schema, target) THEN Error("validation", "struct", "")
            ELSE IF bad = {} THEN NoError
            ELSE errs[CHOOSE i \in bad : \A j \in bad : i <= j]
        loop(errs) == first(errs, {i \in 1..Len(fields) : errs[i].status # "ok"})
    IN  loop([i \in 1..Len(fields) |->
                IF fields[i].private THEN NoError
                ELSE validateField(fields[i], target[fields[i].name])])

\* ------------------------------------------------------------------------
\* Print
\* ------------------------------------------------------------------------
\* fmt.Sprintf("%v", v) of a value of type T: a text as it is, a number in
\* decimal, a time.Duration through its String method, a list as its elements
\* between brackets with a space between them; for a pointer %v prints the
\* address, whose digits differ from run to run (a sample stands for it)
Sprint(T, v) ==
    LET signed(n) == IF n < 0 THEN <<"-">> \o Itoa(0 - n) ELSE Itoa(n)
        tenths(n) == Itoa(n \div 10) \o
                     (IF n % 10 # 0 THEN <<".">> \o Itoa(n % 10) ELSE <<>>)
        duration(n) ==
            (IF n >= 3600 THEN Itoa(n \div 3600) \o <<"h">> ELSE <<>>)
              \o (IF n >= 60 THEN Itoa((n % 3600) \div 60) \o <<"m">> ELSE <<>>)
              \o Itoa(n % 60) \o <<"s">>
        scalar(U, e) ==
            CASE e.k = "str" -> e.s
              [] e.k = "big" -> e.s
              [] e.k = "bool" -> IF e.n = 1 THEN <<"t", "r", "u", "e">>
                                 ELSE <<"f", "a", "l", "s", "e">>
              [] e.k = "float" ->
                   IF e.n < 0 THEN <<"-">> \o tenths(0 - e.n) ELSE tenths(e.n)
              [] e.k = "num" ->
                   IF U = "time.Duration"
                   THEN IF e.n < 0 THEN <<"-">> \o duration(0 - e.n) ELSE duration(e.n)
                   ELSE signed(e.n)
              [] OTHER -> <<"<", "n", "i", "l", ">">>
    IN  IF TypeInfo(T).kind = "ptr"
        THEN IF v = NilV THEN <<"<", "n", "i", "l", ">">>
             ELSE <<"0", "x", "c", "0", "0", "0", "0", "1", "2", "0", "0", "0">>
        ELSE IF TypeInfo(T).kind = "slice"
        THEN <<"[">> \o Join([i \in 1..Len(v.l) |-> scalar(TypeInfo(T).elem, v.l[i])],
                             <<" ">>) \o <<"]">>
        ELSE scalar(T, v)

\* a variant of Print that skips no field and prints every value in full
PrintLinesInFull(fields, target) ==
    [err |-> NoError,
     lines |-> [i \in 1..Len(fields) |->
                  [name |-> fields[i].name, form |-> "value",
                   text |-> Sprint(Underlying(fields[i].type), target[fields[i].name])]]]

\* Print: the lines written to the log, one per field that is not hidden, in
\* the order of the fields: the length of the text of a field displayed as
\* length, <nil> for a nil pointer, the text of the value otherwise;
\* ef.Interface() panics on a field that is not exported, after the lines of
\* the fields before it
PrintLines(fields, target) ==
    LET isPtr(i) == TypeInfo(fields[i].type).kind = "ptr"
        line(i) ==
            LET f == fields[i]
                v == target[f.name]
            IN  IF f.display = "hidden"
                THEN [name |-> f.name, form |-> "hidden", text |-> <<>>]
                ELSE IF f.display = "length"
                THEN [name |-> f.name, form |-> "length",
                      text |-> Itoa(Len(Sprint(f.type, v)))]
                ELSE IF isPtr(i) /\ v = NilV
                THEN [name |-> f.name, form |-> "nil", text |-> <<>>]
                ELSE [name |-> f.name, form |-> "value",
                      text |-> Sprint(Underlying(f.type), v)]
        bad == {i \in 1..Len(fields) :
                   /\ fields[i].private
                   /\ fields[i].display # "hidden"
                   /\ (fields[i].display = "length" \/ ~isPtr(i))}
        stop == IF bad = {} THEN Len(fields) + 1 ELSE CHOOSE i \in bad : \A j \in bad : i <= j
        shown(l) == l.form # "hidden"
    IN  [err |-> IF bad = {} THEN NoError
                 ELSE [Error("print", "panic", fields[stop].name) EXCEPT !.status = "panic"],
         lines |-> SelectSeq([i \in 1..(stop - 1) |-> line(i)], shown)]

\* ------------------------------------------------------------------------
\* The structs and inputs of the model
\* ------------------------------------------------------------------------
Field(name, type, arg, env, default, required) ==
    [name |-> name, type |-> type, arg |-> arg, env |-> env, default |-> default,
     required |-> required, separator |-> NoTag, display |-> "", private |-> FALSE]

Types ==
    {"string", "bool", "int", "int32", "float64", "*float64", "time.Duration", "[]string",
     "[]int", "Username", "testPort", "IsActive", "TestBroker", "TestURL", "Brokers"}

\* sample texts of a type: two that convert to different values, and where
\* the type has them one that does not convert, and the empty text
TextsOf(T) ==
    CASE T \in {"string", "Username"} -> {<<"a">>, <<"b">>, <<>>}
      [] T \in {"bool", "IsActive"} -> {<<"t", "r", "u", "e">>, <<"0">>, <<"x">>, <<>>}
      [] T = "int" -> {<<"7">>, <<"1", "2">>, <<"x">>, <<>>}
      [] T = "int32" ->
           \* 7, 4294967297 (above int32, low 32 bits 1), a number above int64
           {<<"7">>, <<"4", "2", "9", "4", "9", "6", "7", "2", "9", "7">>,
            <<"9", "9", "9", "9", "9", "9", "9", "9", "9", "9",
              "9", "9", "9", "9", "9", "9", "9", "9", "9">>, <<"x">>}
      [] T = "testPort" -> {<<"8", "0", "8", "0">>, <<"8", "0">>, <<"x">>, <<>>}
      [] T \in {"float64", "*float64"} -> {<<"1", ".", "5">>, <<"2">>, <<"x">>, <<>>}
      [] T = "time.Duration" -> {<<"1", "h">>, <<"1", "d", "2", "h">>, <<"x">>, <<>>}
      [] T = "[]string" -> {<<"a", ",", "b">>, <<" ", "c", " ", ",">>, <<>>}
      [] T = "[]int" -> {<<"1", ",", "2">>, <<" ", "7", " ", ",", ",", "3">>,
                         <<"1", ",", "x">>, <<>>}
      [] T = "TestBroker" -> {<<"a", ":", "1">>, <<"s", ":", "/", "/", "b">>, <<>>}
      [] T = "TestURL" -> {HttpScheme \o <<"a">>, HttpsScheme \o <<"b">>, <<"x">>, <<>>}
      [] T = "Brokers" -> {<<"a", ",", "b">>, <<"s", ":", "/", "/", "c">>, <<>>}
      [] T = "Marked" -> {<<"a">>, <<>>}

\* a default text of the type that converts, different from the sample texts,
\* and one that does not convert (for a type that takes every text, the empty
\* text)
GoodText(T) ==
    CASE T \in {"string", "Username"} -> <<"d">>
      [] T \in {"bool", "IsActive"} -> <<"t", "r", "u", "e">>
      [] T \in {"int", "int32"} -> <<"3">>
      [] T = "testPort" -> <<"9", "0", "0", "0">>
      [] T \in {"float64", "*float64"} -> <<"0", ".", "5">>
      [] T = "time.Duration" -> <<"3", "s">>
      [] T = "[]string" -> <<"d", ",", "e">>
      [] T = "[]int" -> <<"3", ",", "4">>
      [] T = "TestBroker" -> <<"d", ":", "1">>
      [] T = "TestURL" -> HttpScheme \o <<"d">>
      [] T = "Brokers" -> <<"d", ",", "e">>

BadText(T) ==
    IF T \in {"string", "Username", "[]string", "TestBroker", "Brokers"} THEN <<>>
    ELSE <<"x">>

\* the default tags tried for a type: none, a text that converts and one
\* that does not
DefaultsOf(T) ==
    {NoTag, Tag(GoodText(T)), Tag(BadText(T))}
        \* 4294967299: above int32, low 32 bits 3
        \cup (IF T = "int32"
              THEN {Tag(<<"4", "2", "9", "4", "9", "6", "7", "2", "9", "9">>)} ELSE {})

ArgName == <<"a">>
EnvName == <<"E">>
ArgName2 == <<"b">>
EnvName2 == <<"F">>

\* structs of one field, tagged with arg and env
BothTagged ==
    {[fields |-> <<Field("Value", T, Tag(ArgName), Tag(EnvName), d, r)>>, validate |-> FALSE] :
        T \in Types, d \in UNION {DefaultsOf(U) : U \in Types}, r \in BOOLEAN}

\* structs of one required text field with every choice of arg and env tag;
\* an env tag may be there with the empty name, or with a name that has a '='
TagVariants ==
    {[fields |-> <<Field("Value", "string", a, e, NoTag, TRUE)>>, validate |-> FALSE] :
        a \in {NoTag, Tag(ArgName)},
        e \in {NoTag, Tag(EnvName), Tag(<<>>), Tag(EnvName \o <<"=", "a">>)}}

\* testValidatingConfig: a struct with a Validate method of its own and a port
ValidatingConfig ==
    {[fields |-> <<Field("Port", "testPort", Tag(ArgName), Tag(EnvName), d, FALSE)>>,
      validate |-> TRUE] : d \in {NoTag, Tag(GoodText("testPort"))}}

\* structs of two fields
TwoFields ==
    {[fields |-> <<Field("Name", "Username", Tag(ArgName), Tag(EnvName), NoTag, r)>>
                  \o <<Field("Port", "testPort", Tag(ArgName2), Tag(EnvName2), NoTag, TRUE)>>,
      validate |-> FALSE] : r \in BOOLEAN}

\* structs of one list field with a separator tag: a separator of its own,
\* and the empty tag
Separated ==
    {[fields |-> <<[Field("Value", T, Tag(ArgName), Tag(EnvName), NoTag, FALSE)
                      EXCEPT !.separator = sep]>>,
      validate |-> FALSE] :
        T \in {"[]string", "[]int"}, sep \in {Tag(<<"|">>), Tag(<<>>)}}

\* the types of the fields that are only validated
ValidatedTypes == {"testBroker", "[]testBroker", "testBrokers", "*testPort"}

\* structs of one field without tags whose type, or the type of whose
\* elements, has a Validate method, and a struct of two such fields
Validated ==
    {[fields |-> <<Field("Value", T, NoTag, NoTag, NoTag, FALSE)>>, validate |-> FALSE] :
        T \in ValidatedTypes}
      \cup {[fields |-> <<Field("Value", "testBroker", NoTag, NoTag, NoTag, FALSE),
                          Field("Port", "*testPort", NoTag, NoTag, NoTag, FALSE)>>,
              validate |-> FALSE]}

\* structs with a field that is not exported, which carries one tag or none
\* and may be hidden from Print, before an exported field
Private ==
    {[fields |-> <<[Field("secret", "string", tags[1], tags[2], tags[3], tags[4])
                      EXCEPT !.private = TRUE, !.display = disp],
                   Field("Value", "string", NoTag, NoTag, NoTag, FALSE)>>,
      validate |-> FALSE] :
        tags \in {<<NoTag, NoTag, NoTag, FALSE>>, <<Tag(ArgName), NoTag, NoTag, FALSE>>,
                  <<NoTag, Tag(EnvName), NoTag, FALSE>>,
                  <<NoTag, NoTag, Tag(GoodText("string")), FALSE>>,
                  <<NoTag, NoTag, NoTag, TRUE>>},
        disp \in {"", "hidden"}}

\* structs with a display tag on the first field
Displayed ==
    {[fields |-> <<[Field("Password", T, Tag(ArgName), Tag(EnvName), NoTag, FALSE)
                      EXCEPT !.display = disp],
                   Field("Value", "string", NoTag, NoTag, NoTag, FALSE)>>,
      validate |-> FALSE] :
        T \in {"string", "int"}, disp \in {"hidden", "length"}}

\* structs of one field of the caller's type with the marking UnmarshalText
Hooked ==
    {[fields |-> <<Field("Value", "Marked", Tag(ArgName), Tag(EnvName), d, FALSE)>>,
      validate |-> FALSE] : d \in {NoTag, Tag(GoodText("string"))}}

Schemas ==
    {sc \in BothTagged : sc.fields[1].default \in DefaultsOf(sc.fields[1].type)}
        \cup TagVariants \cup ValidatingConfig \cup TwoFields \cup Separated
        \cup Validated \cup Private \cup Displayed \cup Hooked

\* the values a caller may have put into a slot of type T before the call: the
\* zero value and one or two others
SlotValues(T) ==
    CASE T \in {"string", "Username", "TestBroker", "TestURL", "Marked"} ->
           {StrV(<<>>), StrV(<<"z">>)}
      [] T \in {"bool", "IsActive"} -> {BoolV(0), BoolV(1)}
      [] T \in {"int", "int32", "time.Duration"} -> {NumV(0), NumV(5)}
      [] T = "testPort" -> {NumV(0), NumV(80), NumV(9000)}
      [] T = "float64" -> {FloatV(0), FloatV(25)}
      [] T = "*float64" -> {NilV, FloatV(0)}
      [] T \in {"[]string", "Brokers"} -> {NilV, ListV(<<>>), ListV(<<StrV(<<"z">>)>>)}
      [] T = "[]int" -> {NilV, ListV(<<>>), ListV(<<NumV(5)>>)}
      [] T = "testBroker" -> {StrV(<<"x">>), StrV(<<"b", ":", "9", "0", "9">>)}
      [] T \in {"[]testBroker", "testBrokers"} ->
           {NilV, ListV(<<>>), ListV(<<StrV(<<"x">>)>>),
            ListV(<<StrV(<<"b", ":", "9", "0", "9">>)>>),
            ListV(<<StrV(<<"b", ":", "9", "0", "9">>), StrV(<<"x">>)>>)}
      [] T = "*testPort" -> {NilV, NumV(80), NumV(9000)}

Targets(schema) ==
    LET names == {schema.fields[i].name : i \in 1..Len(schema.fields)}
        typeOf(n) == schema.fields[CHOOSE i \in 1..Len(schema.fields) :
                                      schema.fields[i].name = n].type
    IN  {t \in [names -> UNION {SlotValues(T) : T \in Types \cup ValidatedTypes}] :
            \A n \in names : t[n] \in SlotValues(typeOf(n))}

SeqsUpTo(S, n) == UNION {[1..k -> S] : k \in 0..n}

\* the sample texts of a field: those of its type, written with the field's
\* separator where it has one
FieldTexts(f) ==
    IF f.separator.ok /\ f.separator.v # <<>>
    THEN {Join(Split(t, <<",">>), f.separator.v) : t \in TextsOf(f.type)}
    ELSE TextsOf(f.type)

\* the argument vectors tried on a struct: flags of its fields with the sample
\* texts of their types
ArgTokens(schema) ==
    UNION {{<<"-">> \o schema.fields[i].arg.v \o <<"=">> \o t :
                t \in FieldTexts(schema.fields[i])}
             \cup (IF TypeInfo(schema.fields[i].type).kind = "bool"
                   THEN {<<"-">> \o schema.fields[i].arg.v} ELSE {}) :
            i \in ArgFields(schema.fields)}

ArgVectors(schema) == SeqsUpTo(ArgTokens(schema), MaxArgs)

\* the entries of the environment blocks tried on a struct: the env names of
\* its fields with the sample texts of their types and, for a text field, two
\* malformed entries, one without '=' and one with nothing before its first '='
EnvEntries(schema) ==
    UNION {{schema.fields[i].env.v \o <<"=">> \o t : t \in FieldTexts(schema.fields[i])}
             \cup (IF schema.fields[i].type = "string"
                   THEN {schema.fields[i].env.v \o <<"a">>,
                         <<"=">> \o schema.fields[i].env.v \o <<"=", "a">>}
                   ELSE {}) :
            i \in {j \in 1..Len(schema.fields) : schema.fields[j].env.ok}}

\* the environment blocks of Parse, and the longer ones of ParseEnv, in which
\* a name can occur twice
Environs(schema) == SeqsUpTo(EnvEntries(schema), MaxEnviron)
EnvironBlocks(schema) == SeqsUpTo(EnvEntries(schema), MaxEnviron + 1)

\* ------------------------------------------------------------------------
\* The state machine
\* ------------------------------------------------------------------------
VARIABLES
    schema,       \* the struct type of the target
    target,       \* the target: the value of each field
    commandLine,  \* the names of the flags defined on flag.CommandLine
    phase,        \* "new", "resolved" after a resolving call, "again" after a
                  \* second one, "exited"
    call,         \* the last call: its name, argument vector and environment
    result,       \* the outcome of the last call
    output        \* the lines the last call wrote to the log

vars == <<schema, target, commandLine, phase, call, result, output>>

NoCall == [op |-> "", args |-> <<>>, environ |-> <<>>]

Init ==
    /\ schema \in Schemas
    /\ target \in Targets(schema)
    /\ commandLine = {}
    /\ phase = "new"
    /\ call = NoCall
    /\ result = [NoError EXCEPT !.status = "none"]
    /\ output = <<>>

\* parse: the three resolvers, then Fill of the merged map
parse(fields, tgt, args, environ) ==
    LET merged(a, e, d) ==
            IF a.err.status # "ok" THEN [err |-> a.err, target |-> tgt]
            ELSE IF e.err.status # "ok" THEN [err |-> e.err, target |-> tgt]
            ELSE IF d.err.status # "ok" THEN [err |-> d.err, target |-> tgt]
            ELSE Fill(fields, tgt, mergeValues(d.values, a.values, e.values))
    IN  merged(argsToValues(fields, args), envToValues(fields, environ),
               DefaultValues(fields))

\* Parse: parse, then ValidateRequired
ParseResult(fields, tgt, args, environ) ==
    LET validated(p) ==
            IF p.err.status # "ok" THEN p
            ELSE [err |-> ValidateRequired(fields, p.target), target |-> p.target]
    IN  validated(parse(fields, tgt, args, environ))

\* ParseArgs: argsToValues, then Fill
ParseArgsResult(fields, tgt, args) ==
    LET filled(a) ==
            IF a.err.status # "ok" THEN [err |-> a.err, target |-> tgt]
            ELSE Fill(fields, tgt, a.values)
    IN  filled(argsToValues(fields, args))

\* ParseEnv: envToValues, then Fill
ParseEnvResult(fields, tgt, environ) ==
    LET filled(e) ==
            IF e.err.status # "ok" THEN [err |-> e.err, target |-> tgt]
            ELSE Fill(fields, tgt, e.values)
    IN  filled(envToValues(fields, environ))

\* a ParseAndPrint that validates the required fields before it prints
ParseThenValidateThenPrint(fields, tgt, args, environ) ==
    LET printed(p, pr) == [err |-> pr.err, target |-> p.target, lines |-> pr.lines]
        validated(p, err) ==
            IF err.status # "ok" THEN [err |-> err, target |-> p.target, lines |-> <<>>]
            ELSE printed(p, PrintLines(fields, p.target))
        parsed(p) ==
            IF p.err.status # "ok"
            THEN [err |-> p.err, target |-> p.target, lines |-> <<>>]
            ELSE validated(p, ValidateRequired(fields, p.target))
    IN  parsed(parse(fields, tgt, args, environ))

\* ParseAndPrint: parse, then Print, then ValidateRequired
ParseAndPrintResult(fields, tgt, args, environ) ==
    LET validated(p, pr) ==
            IF pr.err.status # "ok"
            THEN [err |-> pr.err, target |-> p.target, lines |-> pr.lines]
            ELSE [err |-> ValidateRequired(fields, p.target), target |-> p.target,
                  lines |-> pr.lines]
        printed(p) ==
            IF p.err.status # "ok"
            THEN [err |-> p.err, target |-> p.target, lines |-> <<>>]
            ELSE validated(p, PrintLines(fields, p.target))
    IN  printed(parse(fields, tgt, args, environ))

\* what a failed call does to the process: it returns the error, a panic
\* unwinds the caller, or, when the
\* flag package rejected the arguments and flag.CommandLine was made with
\* flag.ExitOnError (its default), the process exits
Outcomes(err) ==
    IF err.status = "ok" THEN {err}
    ELSE IF err.kind = "panic" THEN {[err EXCEPT !.status = "panic"]}
    ELSE IF err.stage = "args" /\ err.kind = "flag"
    THEN {err, [err EXCEPT !.status = "exit"]}
    ELSE {err}

\* a resolving call: the outcome r of the call, or, in a call that registers
\* flags, a panic when a flag is defined twice
Resolve(op, args, environ, r, usesFlags) ==
    /\ call' = [op |-> op, args |-> args, environ |-> environ]
    /\ IF usesFlags /\ Redefines(schema.fields, commandLine)
       THEN /\ result' = [Error("args", "redefined", "") EXCEPT !.status = "panic"]
            /\ target' = target
            /\ phase' = "exited"
            /\ commandLine' = commandLine
       ELSE /\ result' \in Outcomes(r.err)
            /\ target' = r.target
            /\ phase' = IF result'.status \in {"exit", "panic"} THEN "exited"
                        ELSE IF phase = "new" THEN "resolved" ELSE "again"
            /\ commandLine' =
                 IF usesFlags
                 THEN commandLine \cup
                      {schema.fields[i].arg.v :
                          i \in Registered(schema.fields,
                                           [j \in 1..Len(schema.fields) |->
                                              IF schema.fields[j].arg.ok
                                              THEN ArgField(schema.fields[j])
                                              ELSE NoFlag("")])}
                 ELSE commandLine
    /\ UNCHANGED schema

Parse ==
    /\ phase = "new"
    /\ \E args \in ArgVectors(schema), environ \in Environs(schema) :
          Resolve("Parse", args, environ,
                  ParseResult(schema.fields, target, args, environ), TRUE)
    /\ output' = <<>>

ParseArgs ==
    /\ phase = "new"
    /\ \E args \in ArgVectors(schema) :
          Resolve("ParseArgs", args, <<>>,
                  ParseArgsResult(schema.fields, target, args), TRUE)
    /\ output' = <<>>

ParseEnv ==
    /\ phase = "new"
    /\ \E environ \in EnvironBlocks(schema) :
          Resolve("ParseEnv", <<>>, environ,
                  ParseEnvResult(schema.fields, target, environ), FALSE)
    /\ output' = <<>>

\* ParseAndPrint, on an environment block one entry shorter than that of Parse
ParseAndPrint ==
    /\ phase = "new"
    /\ \E args \in ArgVectors(schema),
          environ \in SeqsUpTo(EnvEntries(schema), MaxEnviron - 1) :
          LET done(r) == /\ Resolve("ParseAndPrint", args, environ, r, TRUE)
                         /\ output' = r.lines
          IN  done(ParseAndPrintResult(schema.fields, target, args, environ))

\* a second call of ParseArgs in the same process, after a resolving call,
\* without arguments
ParseArgsAgain ==
    /\ phase = "resolved"
    /\ Resolve("ParseArgsAgain", <<>>, <<>>,
               ParseArgsResult(schema.fields, target, <<>>), TRUE)
    /\ output' = <<>>

\* a call of Print on the target as it is
CallPrint ==
    /\ phase # "exited"
    /\ call' = [NoCall EXCEPT !.op = "Print"]
    /\ LET done(pr) == result' = pr.err /\ output' = pr.lines
       IN  done(PrintLines(schema.fields, target))
    /\ UNCHANGED <<schema, target, commandLine>>
    /\ phase' = IF result'.status = "panic" THEN "exited" ELSE phase

\* a call of ValidateRequired on the target as it is
CallValidateRequired ==
    /\ phase # "exited"
    /\ call' = [NoCall EXCEPT !.op = "ValidateRequired"]
    /\ result' = ValidateRequired(schema.fields, target)
    /\ output' = <<>>
    /\ UNCHANGED <<schema, target, commandLine>>
    /\ phase' = IF result'.status = "panic" THEN "exited" ELSE phase

\* a call of ValidateHasValidation on the target as it is
CallValidateHasValidation ==
    /\ phase # "exited"
    /\ call' = [NoCall EXCEPT !.op = "ValidateHasValidation"]
    /\ result' = ValidateHasValidation(schema, target)
    /\ output' = <<>>
    /\ UNCHANGED <<schema, target, commandLine, phase>>

Next ==
    \/ Parse
    \/ ParseArgs
    \/ ParseEnv
    \/ ParseAndPrint
    \/ ParseArgsAgain
    \/ CallValidateRequired
    \/ CallValidateHasValidation
    \/ CallPrint

Spec == Init /\ [][Next]_vars

\* ------------------------------------------------------------------------
\* What the sources of the last call hold for a field
\* ------------------------------------------------------------------------
FieldIdx == 1..Len(schema.fields)

\* the environment of the last call has a variable of the field's env name
EnvGiven(f) == f.env.ok /\ f.env.v \in DOMAIN EnvMap(EmptyMap, call.environ)

\* the text of that variable
EnvText(f) == EnvMap(EmptyMap, call.environ)[f.env.v]

\* the positions of the argument vector of the last call that pass the
\* field's flag
ArgTokensOf(f) ==
    IF f.arg.ok
    THEN {i \in 1..Len(call.args) : HasPrefix(call.args[i], <<"-">> \o f.arg.v)}
    ELSE {}

ArgGiven(f) == ArgTokensOf(f) # {}

\* the texts passed with the field's flag as -name=text
ArgTexts(f) ==
    {SubSeq(call.args[i], Len(f.arg.v) + 3, Len(call.args[i])) :
        i \in {j \in ArgTokensOf(f) : Len(call.args[j]) >= Len(f.arg.v) + 2}}

\* no value of any type
Absent == [k |-> "absent", n |-> 0, s |-> <<>>, l |-> <<>>]

\* the value a field gets when the entry of the given map is filled into it
SourceValue(values, f) ==
    IF f.name \in DOMAIN values
    THEN Decode(f.type, Encode(values[f.name]), ZeroValue(f.type)).v
    ELSE Absent

FromEnv(f) == SourceValue(envToValues(schema.fields, call.environ).values, f)
FromArgs(f) == SourceValue(argsToValues(schema.fields, call.args).values, f)
FromDefault(f) == SourceValue(DefaultValues(schema.fields).values, f)

\* the last call was Parse and it got as far as filling the target
ParseFilled == call.op = "Parse" /\ (result.status = "ok" \/ result.stage = "required")

\* whether a text converts to a type
Converts(T, t) ==
    LET info == TypeInfo(T)
    IN  IF info.unmarshal THEN UnmarshalText(T, t).ok
        ELSE IF T = "time.Duration" THEN ParseDuration(t).ok
        ELSE CASE info.kind = "string" -> TRUE
               [] info.kind = "slice" ->
                    parseSliceFromString(t, <<",">>, info.elem).st = "ok"
               [] info.kind = "int32" -> IF IsBig(t) THEN InRange(t, 32) ELSE Atoi(t).ok
               [] info.kind = "bool" -> ParseBool(t).ok
               [] info.kind \in {"int", "int64"} -> Atoi(t).ok
               [] OTHER -> ParseFloat(t).ok

\* whether a value is the empty representation of a type
EmptyValue(T, v) ==
    CASE TypeInfo(T).kind = "ptr" -> v = NilV
      [] TypeInfo(T).kind = "slice" -> v \in {NilV, ListV(<<>>)}
      [] OTHER -> v = ZeroValue(T)

\* the required fields, booleans excepted, that hold the empty representation
RequiredEmpty ==
    {i \in FieldIdx : /\ schema.fields[i].required
                      /\ TypeInfo(schema.fields[i].type).kind # "bool"
                      /\ EmptyValue(schema.fields[i].type, target[schema.fields[i].name])}

ArgOverridesEnv ==
    ParseFilled =>
        \A i \in FieldIdx :
            LET f == schema.fields[i]
            IN  (f.default.ok /\ EnvGiven(f) /\ ArgGiven(f) /\ FromArgs(f) # Absent)
                    => target[f.name] = FromArgs(f)

\* ------------------------------------------------------------------------
\* C3: with a default, an environment value and an argument all present, the
\* source that wins is the same for a field of every type: the one that wins
\* for a string field.
\* ------------------------------------------------------------------------
ThreeWay(f) == f.default.ok /\ EnvGiven(f) /\ ArgGiven(f)

\* the source whose value the field holds
Winner(f) ==
    IF target[f.name] = FromEnv(f) THEN "env"
    ELSE IF target[f.name] = FromArgs(f) THEN "arg"
    ELSE IF target[f.name] = FromDefault(f) THEN "default"
    ELSE "none"

\* the source that wins on a string field with three different texts
StringWinner ==
    LET f == Field("Value", "string", Tag(ArgName), Tag(EnvName), Tag(<<"d">>), FALSE)
        r == ParseResult(<<f>>, [n \in {"Value"} |-> StrV(<<>>)],
                         <<(<<"-">> \o ArgName \o <<"=", "a">>)>>,
                         <<(EnvName \o <<"=", "e">>)>>)
    IN  CASE r.target["Value"] = StrV(<<"e">>) -> "env"
          [] r.target["Value"] = StrV(<<"a">>) -> "arg"
          [] r.target["Value"] = StrV(<<"d">>) -> "default"
          [] OTHER -> "none"

SameWinnerForEveryType ==
    ParseFilled =>
        \A i \in FieldIdx :
            ThreeWay(schema.fields[i]) => Winner(schema.fields[i]) = StringWinner

\* Parse has settled a three-way conflict of three different values on a
\* duration field
DurationThreeWayReached ==
    /\ ParseFilled
    /\ \E i \in FieldIdx :
          LET f == schema.fields[i]
          IN  /\ f.type = "time.Duration" /\ ThreeWay(f)
              /\ FromArgs(f) # Absent
              /\ FromArgs(f) # FromEnv(f)
              /\ FromDefault(f) # FromEnv(f)
              /\ FromDefault(f) # FromArgs(f)
              /\ Winner(f) = StringWinner

\* ------------------------------------------------------------------------
\* C4: whenever Parse returns without error, every required field that is not
\* a boolean holds a non-empty value.
\* ------------------------------------------------------------------------
ParseOkRequiredFilled ==
    (call.op = "Parse" /\ result.status = "ok") => RequiredEmpty = {}

\* Parse has returned without error on a struct with a required field that is
\* not a boolean and that was empty before the call got its value
ParseOkRequiredReached ==
    /\ call.op = "Parse" /\ result.status = "ok"
    /\ \E i \in FieldIdx :
          LET f == schema.fields[i]
          IN  /\ f.required /\ TypeInfo(f.type).kind # "bool"
              /\ ~f.default.ok
              /\ EnvGiven(f) \/ ArgGiven(f)
              /\ ~EmptyValue(f.type, target[f.name])

\* ------------------------------------------------------------------------
\* C5: Parse runs the semantic validation pass: when Parse returns without
\* error, no Validate hook of the target or of a field fails.
\* ------------------------------------------------------------------------
ParseRunsValidation ==
    (call.op = "Parse" /\ result.status = "ok")
        => ValidateHasValidation(schema, target).status = "ok"

\* ------------------------------------------------------------------------
\* C6: when a required field that is not a boolean holds its empty
\* representation, ValidateRequired returns an error, and the message of the
\* first such field names its argument name, its environment name, or both
\* joined by "or" (on a struct whose fields are all exported: on a field that
\* is not exported ValidateRequired panics, which C21 records).
\* ------------------------------------------------------------------------
RequiredEmptyIsNamed ==
    (/\ call.op = "ValidateRequired"
     /\ RequiredEmpty # {}
     /\ \A i \in FieldIdx : ~schema.fields[i].private) =>
        LET f == schema.fields[CHOOSE i \in RequiredEmpty : \A j \in RequiredEmpty : i <= j]
        IN  /\ result.status = "error"
            /\ result.kind = "empty"
            /\ result.param = f.arg
            /\ result.env = f.env
            /\ result.or = (f.arg.ok /\ f.env.ok)

\* ValidateRequired has failed on an empty required field that has both names
RequiredEmptyBothNamesReached ==
    /\ call.op = "ValidateRequired"
    /\ RequiredEmpty # {}
    /\ result.status = "error"
    /\ result.param.ok /\ result.env.ok /\ result.or

\* ------------------------------------------------------------------------
\* C7: a required field that is a boolean, or of a named boolean type, never
\* makes ValidateRequired fail, whether it holds true or false.
\* ------------------------------------------------------------------------
RequiredBoolNeverFails ==
    /\ result.stage = "required" =>
          \A i \in FieldIdx :
              (schema.fields[i].name = result.field)
                  => TypeInfo(schema.fields[i].type).kind # "bool"
    /\ (/\ call.op = "ValidateRequired"
        /\ \A i \in FieldIdx : TypeInfo(schema.fields[i].type).kind = "bool")
          => result.status = "ok"

\* ValidateRequired has passed a required field of a named boolean type that
\* holds false
RequiredBoolFalseReached ==
    /\ call.op = "ValidateRequired"
    /\ result.status = "ok"
    /\ \E i \in FieldIdx :
          /\ schema.fields[i].type = "IsActive"
          /\ schema.fields[i].required
          /\ target[schema.fields[i].name] = BoolV(0)

\* ------------------------------------------------------------------------
\* C8: when the text a source supplies for a field (the default text, the
\* environment value or the argument value) does not convert to the field's
\* type, Parse does not return without error.
\* ------------------------------------------------------------------------
ParseFailsOnBadText ==
    (/\ call.op = "Parse"
     /\ \E i \in FieldIdx :
           LET f == schema.fields[i]
           IN  \/ f.default.ok /\ ~Converts(f.type, f.default.v)
               \/ EnvGiven(f) /\ ~Converts(f.type, EnvText(f))
               \/ \E t \in ArgTexts(f) : ~Converts(f.type, t))
        => result.status # "ok"

\* ------------------------------------------------------------------------
\* C9: ParseArgs returns an error whenever the default text of a field with
\* an arg tag does not convert to the field's type.
\* ------------------------------------------------------------------------
ParseArgsFailsOnBadDefault ==
    (/\ call.op = "ParseArgs"
     /\ \E i \in FieldIdx :
           LET f == schema.fields[i]
           IN  f.arg.ok /\ f.default.ok /\ ~Converts(f.type, f.default.v))
        => result.status # "ok"

\* ------------------------------------------------------------------------
\* C10: in every resolver the text of a field whose type has the
\* UnmarshalText hook is decoded by the hook, whole: the call fails when the
\* hook rejects the text, and otherwise the field holds the hook's value.
\* ------------------------------------------------------------------------
\* the last call did to field f what the hook does with text t
DecodedByHook(f, t) ==
    LET u == UnmarshalText(f.type, t)
    IN  IF u.ok THEN result.status = "ok" /\ target[f.name] = u.v
        ELSE result.status # "ok"

HookDecodesInEveryResolver ==
    \A i \in FieldIdx :
        LET f == schema.fields[i]
        IN  (TypeInfo(f.type).unmarshal /\ Len(schema.fields) = 1) =>
                /\ (call.op = "ParseEnv" /\ EnvGiven(f)) => DecodedByHook(f, EnvText(f))
                /\ (call.op = "ParseArgs" /\ Len(call.args) = 1)
                      => \A t \in ArgTexts(f) : DecodedByHook(f, t)
                /\ (/\ call.op = "Parse" /\ call.args = <<>> /\ ~EnvGiven(f)
                    /\ f.default.ok /\ ~f.required)
                      => DecodedByHook(f, f.default.v)

\* a field of a list type without an UnmarshalText method
PlainList(f) == TypeInfo(f.type).kind = "slice" /\ ~TypeInfo(f.type).unmarshal

\* ------------------------------------------------------------------------
\* C11: a full Parse resolves the default text of a list field by the list
\* rule: with no argument and no environment value, Parse returns no error
\* and the field holds the trimmed segments of its default text.
\* ------------------------------------------------------------------------
ListDefaultResolvedByParse ==
    \A i \in FieldIdx :
        LET f == schema.fields[i]
        IN  (/\ call.op = "Parse"
             /\ call.args = <<>>
             /\ call.environ = <<>>
             /\ PlainList(f)
             /\ f.default.ok
             /\ f.default.v # <<>>
             /\ Converts(f.type, f.default.v))
            => /\ result.status = "ok"
               /\ target[f.name]
                    = parseSliceFromString(f.default.v, SeparatorOf(f),
                                           TypeInfo(f.type).elem).v

\* ------------------------------------------------------------------------
\* C12: a source that supplies the empty text to a list field fills it with
\* the empty list, which is not nil, and the call returns no error: the
\* environment in ParseEnv, the argument in ParseArgs, and the default tag in
\* ParseArgs and in Parse when nothing else supplies the field.
\* ------------------------------------------------------------------------
EmptyTextFillsEmptyList ==
    \A i \in FieldIdx :
        LET f == schema.fields[i]
            fromEnv == call.op = "ParseEnv" /\ EnvGiven(f) /\ EnvText(f) = <<>>
            fromArg ==
                /\ call.op = "ParseArgs"
                /\ ArgTexts(f) = {<<>>}
                /\ f.default.ok => f.default.v = <<>>
            fromDefault ==
                /\ call.op \in {"ParseArgs", "Parse"}
                /\ call.args = <<>>
                /\ call.environ = <<>>
                /\ f.default = Tag(<<>>)
        IN  (PlainList(f) /\ ~f.required /\ (fromEnv \/ fromArg \/ fromDefault))
            => /\ result.status = "ok"
               /\ target[f.name] = ListV(<<>>)

\* the list text that alone decides a list field in the last call: the
\* environment's in ParseEnv, the argument's in ParseArgs
ListTexts(f) ==
    IF call.op = "ParseEnv" /\ EnvGiven(f) THEN {EnvText(f)}
    ELSE IF call.op = "ParseArgs" /\ (f.default.ok => Converts(f.type, f.default.v))
    THEN ArgTexts(f)
    ELSE {}

\* ------------------------------------------------------------------------
\* C13: a list text is split on the field's separator (a comma unless the
\* separator tag names another), every segment is trimmed, the segments that
\* are then empty are dropped, and the others are converted to the element
\* type and stored in the order of the text; the call fails when a kept
\* segment does not convert.
\* ------------------------------------------------------------------------
ListIsKeptSegments ==
    \A i \in FieldIdx :
        LET f == schema.fields[i]
            sep == IF f.separator.ok /\ f.separator.v # <<>> THEN f.separator.v ELSE <<",">>
            KeptSegments(t) ==
                LET parts == Split(t, sep)
                    kept == {j \in 1..Len(parts) : TrimSpace(parts[j]) # <<>>}
                    nth(k) == CHOOSE j \in kept : Cardinality({n \in kept : n <= j}) = k
                IN  [k \in 1..Cardinality(kept) |-> TrimSpace(parts[nth(k)])]
            ElementOf(x) ==
                CASE TypeInfo(f.type).elem = "string" -> Val(StrV(x))
                  [] TypeInfo(f.type).elem = "int" -> Parsed(Atoi(x), "num")
        IN  (PlainList(f) /\ Cardinality(ListTexts(f)) = 1)
            => \A t \in ListTexts(f) :
                  LET segs == KeptSegments(t)
                      conv == [k \in 1..Len(segs) |-> ElementOf(segs[k])]
                  IN  IF \A k \in 1..Len(segs) : conv[k].st = "ok"
                      THEN /\ result.status = "ok"
                           /\ target[f.name] = ListV([k \in 1..Len(segs) |-> conv[k].v])
                      ELSE result.status # "ok"

\* a list text with a separator of its own and a segment that is dropped was
\* parsed into two numbers
ListIsKeptSegmentsReached ==
    \E i \in FieldIdx :
        LET f == schema.fields[i]
        IN  /\ PlainList(f)
            /\ f.separator.ok
            /\ f.separator.v # <<>>
            /\ ListTexts(f) # {}
            /\ \E t \in ListTexts(f) :
                  /\ Len(Split(t, f.separator.v)) = 3
                  /\ \E k \in 1..3 : TrimSpace(Split(t, f.separator.v)[k]) = <<>>
            /\ result.status = "ok"
            /\ target[f.name].k = "list"
            /\ Len(target[f.name].l) = 2
            /\ target[f.name].l[1].k = "num"

EnvEntriesOf(f) ==
    IF f.env.ok
    THEN {i \in 1..Len(call.environ) : HasPrefix(call.environ[i], f.env.v \o <<"=">>)}
    ELSE {}

\* ------------------------------------------------------------------------
\* C15: when the environment block names a variable more than once, the
\* value used is that of its last occurrence: ParseEnv ends as it would on
\* the block that holds the last occurrence alone.
\* ------------------------------------------------------------------------
LastOccurrenceWins ==
    \A i \in FieldIdx :
        LET f == schema.fields[i]
            last == CHOOSE n \in EnvEntriesOf(f) : \A m \in EnvEntriesOf(f) : m <= n
            alone == envToValues(schema.fields, <<call.environ[last]>>)
        IN  (call.op = "ParseEnv" /\ f.env.v # <<>> /\ EnvEntriesOf(f) # {})
            => /\ EnvGiven(f)
               /\ EnvText(f) = SubSeq(call.environ[last], Len(f.env.v) + 2,
                                       Len(call.environ[last]))
               /\ result.status = "ok" => target[f.name] = SourceValue(alone.values, f)
               /\ Len(schema.fields) = 1 => result.status = alone.err.status

\* ParseEnv on a block that names the variable of a text field twice, with
\* two texts, filled the field with the second
LastOccurrenceWinsReached ==
    \E i \in FieldIdx :
        LET f == schema.fields[i]
        IN  /\ call.op = "ParseEnv"
            /\ f.type = "string"
            /\ f.env.v # <<>>
            /\ Len(call.environ) = 2
            /\ EnvEntriesOf(f) = {1, 2}
            /\ call.environ[1] # call.environ[2]
            /\ result.status = "ok"
            /\ target[f.name] = StrV(SubSeq(call.environ[2], Len(f.env.v) + 2,
                                             Len(call.environ[2])))

\* ------------------------------------------------------------------------
\* C16: an entry of the environment block without '=', or with nothing
\* before its first '=', is skipped: ParseEnv on a block of such entries
\* returns no error and leaves every field as it was.
\* ------------------------------------------------------------------------
MalformedEntrySkipped ==
    [][(/\ phase = "new"
        /\ call'.op = "ParseEnv"
        /\ \A n \in 1..Len(call'.environ) :
              \/ \A k \in 1..Len(call'.environ[n]) : call'.environ[n][k] # "="
              \/ call'.environ[n][1] = "=")
       => (result'.status = "ok" /\ target' = target)]_vars

\* ------------------------------------------------------------------------
\* C17: an environment variable that is set to the empty text is a supplied
\* value: Parse fills a text field with the empty text of the environment,
\* not with its default.
\* ------------------------------------------------------------------------
EmptyEnvIsSupplied ==
    \A i \in FieldIdx :
        LET f == schema.fields[i]
        IN  (/\ ParseFilled
             /\ f.type \in {"string", "Username"}
             /\ f.env.ok
             /\ \E n \in 1..Len(call.environ) : call.environ[n] = f.env.v \o <<"=">>
             /\ \A n \in 1..Len(call.environ) :
                   HasPrefix(call.environ[n], f.env.v \o <<"=">>)
                      => call.environ[n] = f.env.v \o <<"=">>)
            => target[f.name] = StrV(<<>>)

\* Parse returned without error on a text field with a default that is not
\* empty and an environment variable set to the empty text, and the field
\* holds the empty text
EmptyEnvIsSuppliedReached ==
    \E i \in FieldIdx :
        LET f == schema.fields[i]
        IN  /\ call.op = "Parse"
            /\ result.status = "ok"
            /\ f.type = "string"
            /\ f.default.ok
            /\ f.default.v # <<>>
            /\ f.env.ok
            /\ call.environ = <<f.env.v \o <<"=">>>>
            /\ target[f.name] = StrV(<<>>)

\* ------------------------------------------------------------------------
\* C18: a text whose number lies outside the range of int32 is rejected for
\* an int32 field by every resolver: a call that takes the field from such a
\* text (the environment's in ParseEnv and Parse, the argument's or, without
\* argument, the default's in ParseArgs) returns an error.
\* ------------------------------------------------------------------------
Int32OutOfRangeRejected ==
    \A i \in FieldIdx :
        LET f == schema.fields[i]
            outside(t) == IsBig(t) /\ ~InRange(t, 32)
            fromEnv == call.op \in {"ParseEnv", "Parse"} /\ EnvGiven(f) /\ outside(EnvText(f))
            fromArg ==
                /\ call.op = "ParseArgs"
                /\ ArgTexts(f) # {}
                /\ \A t \in ArgTexts(f) : outside(t)
            fromDefault ==
                /\ call.op = "ParseArgs"
                /\ call.args = <<>>
                /\ f.default.ok
                /\ outside(f.default.v)
        IN  (f.type = "int32" /\ (fromEnv \/ fromArg \/ fromDefault))
            => result.status # "ok"

NilPointerSkipped ==
    \A i \in FieldIdx :
        LET f == schema.fields[i]
        IN  (/\ call.op = "ValidateHasValidation"
             /\ TypeInfo(f.type).kind = "ptr"
             /\ target[f.name] = NilV)
            => /\ result.status # "panic"
               /\ ~(result.status = "error" /\ result.field = f.name)
               /\ Len(schema.fields) = 1 => result.status = "ok"

\* ValidateHasValidation returned without error on a nil pointer to a type
\* with a Validate method
NilPointerSkippedReached ==
    \E i \in FieldIdx :
        LET f == schema.fields[i]
        IN  /\ call.op = "ValidateHasValidation"
            /\ f.type = "*testPort"
            /\ target[f.name] = NilV
            /\ result.status = "ok"

\* ------------------------------------------------------------------------
\* C21: fields that are not exported
\* ------------------------------------------------------------------------
\* C21: a field that is not exported is skipped by every component, whatever
\* tags it carries: no call panics or fails on such a field
PrivateFieldSkipped ==
    \A i \in FieldIdx :
        schema.fields[i].private =>
            ~(result.status \in {"panic", "error"} /\ result.field = schema.fields[i].name)

\* ------------------------------------------------------------------------
\* C22: Print writes nothing for a field displayed as "hidden" and only the
\* length of the text for a field displayed as "length": the lines of a
\* completed Print have no line for a hidden field and are the same for every
\* other value of it, and they give a length field as the length of its text
\* and are the same for every other value whose text has that length.
\* ------------------------------------------------------------------------
PrintHidesValues ==
    (call.op \in {"Print", "ParseAndPrint"} /\ result.status = "ok") =>
        \A i \in FieldIdx :
            LET f == schema.fields[i]
                others == SlotValues(f.type)
                            \cup (IF f.type = "string" THEN {StrV(t) : t \in TextsOf(f.type)}
                                  ELSE IF f.type = "int" THEN {NumV(7), NumV(12)}
                                  ELSE {})
                with(w) == PrintLines(schema.fields, [target EXCEPT ![f.name] = w]).lines
                width(w) == Len(Sprint(f.type, w))
            IN  /\ f.display = "hidden" =>
                     /\ \A n \in 1..Len(output) : output[n].name # f.name
                     /\ \A w \in others : with(w) = output
                /\ f.display = "length" =>
                     /\ \E n \in 1..Len(output) :
                            output[n] = [name |-> f.name, form |-> "length",
                                         text |-> Itoa(width(target[f.name]))]
                     /\ \A n \in 1..Len(output) :
                            output[n].name = f.name => output[n].form = "length"
                     /\ \A w \in others :
                            width(w) = width(target[f.name]) => with(w) = output

\* Print has written the lines of a struct whose first field, displayed as
\* length, holds 5, and 0 and 7 have texts of the same length
PrintHidesValuesReached ==
    /\ call.op = "Print"
    /\ result.status = "ok"
    /\ Len(schema.fields) = 2
    /\ schema.fields[1].display = "length"
    /\ schema.fields[1].type = "int"
    /\ target[schema.fields[1].name] = NumV(5)
    /\ target[schema.fields[2].name] = StrV(<<"z">>)
    /\ output = <<[name |-> "Password", form |-> "length", text |-> <<"1">>],
                  [name |-> "Value", form |-> "value", text |-> <<"z">>]>>

\* ------------------------------------------------------------------------
\* C23: each validation pass looks at the fields in the order of their
\* declaration and stops at the first that fails: ValidateRequired returns
\* the error of the first required field whose own check fails, and
\* ValidateHasValidation, when the struct's own Validate passes, the error of
\* the first exported field whose own check fails; a pass returns nil only
\* when no field fails.
\* ------------------------------------------------------------------------
FirstFailureWins ==
    LET emptyAt(i) == validateRequiredField(schema.fields[i],
                                            target[schema.fields[i].name])
        invalidAt(i) == validateField(schema.fields[i], target[schema.fields[i].name])
        empty == {i \in FieldIdx : schema.fields[i].required /\ emptyAt(i).status # "ok"}
        invalid == {i \in FieldIdx : ~schema.fields[i].private /\ invalidAt(i).status # "ok"}
        firstOf(S) == CHOOSE i \in S : \A j \in S : i <= j
    IN  /\ call.op = "ValidateRequired" =>
              IF empty = {} THEN result = NoError ELSE result = emptyAt(firstOf(empty))
        /\ (call.op = "ValidateHasValidation" /\ StructValidateOk(schema, target)) =>
              IF invalid = {} THEN result = NoError ELSE result = invalidAt(firstOf(invalid))

\* ValidateRequired has run on a struct whose two required fields are both
\* empty, and the error names the first of them
FirstFailureWinsReached ==
    /\ call.op = "ValidateRequired"
    /\ Len(schema.fields) = 2
    /\ \A i \in FieldIdx :
           /\ schema.fields[i].required
           /\ validateRequiredField(schema.fields[i],
                                    target[schema.fields[i].name]).status = "error"
    /\ result.status = "error"
    /\ result.field = schema.fields[1].name
    /\ result.param = Tag(ArgName)

\* ------------------------------------------------------------------------
\* C24: in ValidateHasValidation the struct's own Validate runs before that
\* of any field: when it fails the pass returns its error, also when a field
\* would fail too.
\* ------------------------------------------------------------------------
StructHookFirst ==
    (call.op = "ValidateHasValidation" /\ ~StructValidateOk(schema, target)) =>
        /\ result.status = "error"
        /\ result.kind = "struct"
        /\ result.field = ""

\* ValidateHasValidation has run on a struct whose Validate fails and whose
\* port would fail its own Validate too
StructHookFirstReached ==
    /\ call.op = "ValidateHasValidation"
    /\ schema.validate
    /\ ~StructValidateOk(schema, target)
    /\ validateField(schema.fields[1], target[schema.fields[1].name]).status = "error"
    /\ result.kind = "struct"

\* ------------------------------------------------------------------------
\* C25: a source map has a key for a field only if the source supplied a
\* value: the default map only for a field with a default tag, the
\* environment map only for a field whose environment name is set, and the
\* argument map only for a field whose argument was passed on the command
\* line.
\* ------------------------------------------------------------------------
KeyOnlyIfSupplied ==
    (call.op \in {"Parse", "ParseArgs", "ParseEnv"} /\ result.status = "ok") =>
        \A i \in FieldIdx :
            LET f == schema.fields[i]
            IN  /\ FromDefault(f) # Absent => f.default.ok
                /\ FromEnv(f) # Absent => EnvGiven(f)
                /\ FromArgs(f) # Absent => ArgGiven(f)

\* ------------------------------------------------------------------------
\* C26: Fill changes only the slots whose names are keys of the map it is
\* given: in every resolving call a field without a key in the map of the
\* call (of the environment, of the arguments, or the merged one) keeps the
\* value it had before the call.
\* ------------------------------------------------------------------------
FillKeepsOtherSlots ==
    [][LET fields == schema.fields
           keyed(n) ==
               CASE call'.op = "ParseEnv" ->
                      n \in DOMAIN envToValues(fields, call'.environ).values
                 [] call'.op \in {"ParseArgs", "ParseArgsAgain"} ->
                      n \in DOMAIN argsToValues(fields, call'.args).values
                 [] OTHER ->
                      \/ n \in DOMAIN DefaultValues(fields).values
                      \/ n \in DOMAIN envToValues(fields, call'.environ).values
                      \/ n \in DOMAIN argsToValues(fields, call'.args).values
       IN  call'.op \in {"Parse", "ParseArgs", "ParseEnv", "ParseAndPrint", "ParseArgsAgain"}
           => \A i \in 1..Len(fields) :
                  target'[fields[i].name] # target[fields[i].name] => keyed(fields[i].name)
      ]_vars

\* ParseEnv has filled the first of two fields from the environment and the
\* second, whose name is not set, still holds the 80 it had
FillKeepsOtherSlotsReached ==
    /\ call.op = "ParseEnv"
    /\ result.status = "ok"
    /\ Len(schema.fields) = 2
    /\ FromEnv(schema.fields[1]) = StrV(<<"a">>)
    /\ FromEnv(schema.fields[2]) = Absent
    /\ target[schema.fields[1].name] = StrV(<<"a">>)
    /\ target[schema.fields[2].name] = NumV(80)

\* ------------------------------------------------------------------------
\* C27: ParseAndPrint runs parse, then Print, then ValidateRequired: nothing
\* is printed when parse fails, and when parse succeeds Print runs on the
\* filled target (it writes its lines, or panics) before the required fields
\* are validated, so the lines are there also when that validation fails.
\* ------------------------------------------------------------------------
PrintedIffParsed ==
    call.op = "ParseAndPrint" =>
        LET printed == PrintLines(schema.fields, target)
            parseFailed == result.stage \in {"args", "env", "default", "fill"}
        IN  /\ parseFailed => output = <<>> /\ result.status # "ok"
            /\ ~parseFailed =>
                 /\ output = printed.lines
                 /\ result.stage = "print" <=> printed.err.status = "panic"
                 /\ result.stage # "print" =>
                      result = ValidateRequired(schema.fields, target)

\* ParseAndPrint has printed the field it filled from the command line, and
\* has returned the error of another field that is required and empty
PrintedIffParsedReached ==
    /\ call.op = "ParseAndPrint"
    /\ Len(schema.fields) = 2
    /\ result.status = "error"
    /\ result.stage = "required"
    /\ result.field = schema.fields[2].name
    /\ target[schema.fields[1].name] = StrV(<<"a">>)
    /\ output = <<[name |-> schema.fields[1].name, form |-> "value", text |-> <<"a">>],
                  [name |-> schema.fields[2].name, form |-> "value", text |-> <<"0">>]>>

\* ------------------------------------------------------------------------
\* C28: calls do not interfere through shared state: a ParseArgs call made
\* after an earlier resolving call of the process does not abort because of
\* it, and its result and its target are those that ParseArgs gives for the
\* target and the argument vector of the call alone.
\* ------------------------------------------------------------------------
SecondCallUnaffected ==
    [][call'.op = "ParseArgsAgain" =>
         LET alone(r) == result' \in Outcomes(r.err) /\ target' = r.target
         IN  alone(ParseArgsResult(schema.fields, target, call'.args))
      ]_vars

\* ------------------------------------------------------------------------
\* C29: an environment entry binds one name, the text before its first '=',
\* to the text after it and introduces no other name: the value the
\* environment supplies for a field comes from an entry whose text before
\* the first '=' is the env name of the field.
\* ------------------------------------------------------------------------
EntryBindsOneName ==
    (call.op = "ParseEnv" /\ result.status = "ok") =>
        \A i \in FieldIdx :
            LET f == schema.fields[i]
                named(entry) == /\ IndexOf(entry, "=") # 0
                                /\ SubSeq(entry, 1, IndexOf(entry, "=") - 1) = f.env.v
            IN  FromEnv(f) # Absent =>
                    \E n \in 1..Len(call.environ) : named(call.environ[n])

\* ------------------------------------------------------------------------
\* C30: for a field whose type has an UnmarshalText method the value stored
\* in the target is that of one application of the method to the text of the
\* source: Fill does not apply the method again to what it returned.
\* ------------------------------------------------------------------------
HookAppliedOnce ==
    (call.op = "ParseEnv" /\ result.status = "ok") =>
        \A i \in FieldIdx :
            LET f == schema.fields[i]
            IN  (TypeInfo(f.type).unmarshal /\ EnvGiven(f)) =>
                    target[f.name] = UnmarshalText(f.type, EnvText(f)).v

====
